---- MODULE Spec2Model ----
(***************************************************************************)
(* datalad-metalad: the write pipeline of meta-extract (extract.py) and    *)
(* the query pipeline of meta-dump (dump.py) over one realm.               *)
(*                                                                         *)
(* An optional value (Python None or an object) is a sequence of length    *)
(* at most one: <<>> is None, <<x>> is the object x.  Persisted objects    *)
(* are content addressed and immutable, so an object is modelled by its    *)
(* value and a reference by the value it refers to.                        *)
(***************************************************************************)
EXTENDS Integers, Sequences, FiniteSets, TLC

VARIABLES
    lock,        \* the writer holding the lock of the realm, or NoWriter
    store_tvl,   \* persisted TreeVersionList of the realm (optional)
    store_uuid,  \* persisted UUIDSet of the realm (optional)
    store_refs,  \* time stamps of the instances whose references are flushed
    clock,       \* time.time(), as a counter
    nwrites,     \* write pipelines begun so far
    pc,          \* pc[w]: the statement writer w executes next
    args,        \* args[w]: the ExtractionParameter and result of w's write
    mem,         \* mem[w]: the objects w holds in memory
    hist,        \* the writes that ran to their end, in order (history)
    q,           \* the query process (meta-dump)
    blobs,       \* the objects written to the git object store of the realm
    connector,   \* a Connector to the TreeVersionList of the realm and its calls
    custom_dataset,  \* the custom_dataset extractor: its dataset and source files
    runprov      \* the runprov extractor: the run records and its lookup table

vars == <<lock, store_tvl, store_uuid, store_refs, clock, nwrites, pc, args, mem, hist, q, blobs,
          connector, custom_dataset, runprov>>

\* ---------------------------------------------------------------- bounds

MaxWrites == 2
MaxSeqWrites == 3

\* ------------------------------------------------------------ basic sets

Writers == {"w1", "w2"}
NoWriter == "nobody"

RootPath == <<>>
SubPath == <<"sub", "a">>
MissingPath == <<"missing", "path">>
PartialPath == <<"sub", "b">>
DatasetNodeOrder == <<RootPath, <<"sub">>, SubPath>>

FilePath == <<"d", "f">>
OtherFilePath == <<"d", "g">>
MissingFilePath == <<"nofile">>
PartialFilePath == <<"d", "zz">>
FileNodeOrder == <<RootPath, <<"d">>, FilePath, OtherFilePath>>

Range(s) == {s[i] : i \in 1..Len(s)}

IsPrefix(p, r) == Len(p) <= Len(r) /\ SubSeq(r, 1, Len(p)) = p

\* ------------------------------------------------------------ tree nodes

\* A tree (DatasetTree, FileTree) is a function from the node paths to nodes;
\* a node that exists carries an optional value.
NoNode == [exists |-> FALSE, value |-> <<>>]

EmptyTree(order) == [p \in Range(order) |-> IF p = RootPath THEN [exists |-> TRUE, value |-> <<>>] ELSE NoNode]

\* DatasetTree.add_dataset / FileTree.add_metadata: the intermediate nodes are
\* created, the node at path carries value.
AddToTree(tree, path, value) ==
    [p \in DOMAIN tree |->
        IF p = path THEN [exists |-> TRUE, value |-> <<value>>]
        ELSE IF IsPrefix(p, path) THEN [exists |-> TRUE, value |-> tree[p].value]
        ELSE tree[p]]

\* path in tree: the node exists and carries a value.
InTree(tree, path) == path \in DOMAIN tree /\ tree[path].exists /\ tree[path].value # <<>>

\* ---------------------------------------------------------------- Metadata

\* MetadataInstanceSet.add_metadata_instance: one instance per configuration;
\* an instance of a configuration already present is overwritten in its place.
AlwaysAppendInstance(instances, instance) == Append(instances, instance)

AddMetadataInstance(instances, instance) ==
    IF \E j \in 1..Len(instances) : instances[j].configuration = instance.configuration
    THEN [j \in 1..Len(instances) |->
            IF instances[j].configuration = instance.configuration THEN instance ELSE instances[j]]
    ELSE Append(instances, instance)

\* Metadata.add_extractor_run: Metadata is an ordered mapping from extractor
\* name to the instances of that extractor.
AddExtractorRun(metadata, extractor_name, instance) ==
    IF \E i \in 1..Len(metadata) : metadata[i].extractor_name = extractor_name
    THEN [i \in 1..Len(metadata) |->
            IF metadata[i].extractor_name = extractor_name
            THEN [metadata[i] EXCEPT !.instances = AddMetadataInstance(@, instance)]
            ELSE metadata[i]]
    ELSE Append(metadata, [extractor_name |-> extractor_name, instances |-> <<instance>>])

\* ------------------------------------------------- top-level objects

\* TreeVersionList: a sequence of [version, tree] in the order of recording.
HasVersion(tvl, version) == \E i \in 1..Len(tvl) : tvl[i].version = version

GetDatasetTree(tvl, version) == (CHOOSE e \in Range(tvl) : e.version = version).tree

SetDatasetTree(tvl, version, tree) ==
    IF HasVersion(tvl, version)
    THEN [i \in 1..Len(tvl) |-> IF tvl[i].version = version THEN [tvl[i] EXCEPT !.tree = tree] ELSE tvl[i]]
    ELSE Append(tvl, [version |-> version, tree |-> tree])

\* UUIDSet: a sequence of [uuid, versions]; versions maps a version to the
\* path and the MetadataRootRecord recorded for the dataset in that version.
SetVersionedElement(versions, version, path, mrr) ==
    IF \E i \in 1..Len(versions) : versions[i].version = version
    THEN [i \in 1..Len(versions) |->
            IF versions[i].version = version THEN [version |-> version, path |-> path, mrr |-> mrr] ELSE versions[i]]
    ELSE Append(versions, [version |-> version, path |-> path, mrr |-> mrr])

SetUUIDElement(uuid_set, uuid, version, path, mrr) ==
    IF \E i \in 1..Len(uuid_set) : uuid_set[i].uuid = uuid
    THEN [i \in 1..Len(uuid_set) |->
            IF uuid_set[i].uuid = uuid
            THEN [uuid_set[i] EXCEPT !.versions = SetVersionedElement(@, version, path, mrr)]
            ELSE uuid_set[i]]
    ELSE Append(uuid_set, [uuid |-> uuid, versions |-> SetVersionedElement(<<>>, version, path, mrr)])

\* A fresh MetadataRootRecord: no dataset-level Metadata, no FileTree yet.
NewMetadataRootRecord(uuid, version) ==
    [dataset_identifier |-> uuid, dataset_version |-> version,
     dataset_level_metadata |-> <<>>, file_tree |-> <<>>]

\* get_top_nodes_and_metadata_root_record(..., auto_create=True): the three
\* objects the write pipeline works on, from the persisted top-level objects.
TopTreeVersionList == IF store_tvl = <<>> THEN <<>> ELSE store_tvl[1]

TopUUIDSet == IF store_uuid = <<>> THEN <<>> ELSE store_uuid[1]

TopDatasetTree(a) ==
    IF HasVersion(TopTreeVersionList, a.version)
    THEN GetDatasetTree(TopTreeVersionList, a.version)
    ELSE EmptyTree(DatasetNodeOrder)

ReseededMetadataRootRecord(a) ==
    IF InTree(TopDatasetTree(a), a.dataset_tree_path)
    THEN [TopDatasetTree(a)[a.dataset_tree_path].value[1] EXCEPT
            !.dataset_identifier = a.uuid, !.dataset_version = a.version]
    ELSE NewMetadataRootRecord(a.uuid, a.version)

TopMetadataRootRecord(a) ==
    IF InTree(TopDatasetTree(a), a.dataset_tree_path)
    THEN TopDatasetTree(a)[a.dataset_tree_path].value[1]
    ELSE NewMetadataRootRecord(a.uuid, a.version)

\* The in-memory TreeVersionList and UUIDSet of a writer as they would be
\* saved: they reach the writer's MetadataRootRecord by reference.
MemTreeVersionList(m, a) ==
    SetDatasetTree(m.tvl, a.version,
        AddToTree(IF HasVersion(m.tvl, a.version) THEN GetDatasetTree(m.tvl, a.version) ELSE EmptyTree(DatasetNodeOrder),
                  a.dataset_tree_path, m.mrr))

MemUUIDSet(m, a) == SetUUIDElement(m.uuid_set, a.uuid, a.version, a.dataset_tree_path, m.mrr)

\* The MetadataRootRecord with the located Metadata (and the FileTree that
\* holds it) attached, as the object graph in memory has it.
WithFileMetadata(mrr, file_tree, path, metadata) ==
    [mrr EXCEPT !.file_tree = <<AddToTree(file_tree, path, metadata)>>]

WithDatasetMetadata(mrr, metadata) == [mrr EXCEPT !.dataset_level_metadata = <<metadata>>]

\* The loop of legacy_extract_dataset / legacy_extract_file: the family of the
\* extractor class ("" outside a legacy extraction), the results the extractor
\* produces, the number of the result the loop is at, the results yielded to
\* the consumer, whether the consumer closed the generator, and the length of
\* the history when the extraction was called (history).
NoLegacy == [family |-> "", results |-> <<>>, pos |-> 0, emitted |-> <<>>, closed |-> FALSE, hist_before |-> 0]

\* The locals of a writer: the objects of the pipeline, the top-level objects
\* as persisted when it took the lock (history), the time stamp of its instance,
\* the statement that raised and the error, and of the extraction around the
\* pipeline: whether extract was called, the blob it wrote and how often, and
\* the result records it yielded and the "action" of the last of them (""
\* before the code sets it); number counts the extractions of the run;
\* of the command: its path argument and the extraction modes it entered;
\* of a legacy extraction: its loop (legacy).
NoMem == [tvl |-> <<>>, uuid_set |-> <<>>, mrr |-> NewMetadataRootRecord("", ""), metadata |-> <<>>, pre_tvl |-> <<>>, pre_uuid |-> <<>>, time_stamp |-> 0, failed_at |-> "no",
          error |-> "", number |-> 0, extract_called |-> FALSE, blob |-> "", blob_writes |-> 0, yielded |-> 0,
          path |-> <<>>, modes |-> {}, legacy |-> NoLegacy, action |-> ""]

NoArgs == [kind |-> "none", version |-> "", uuid |-> "", dataset_tree_path |-> RootPath, file_tree_path |-> RootPath,
           extractor_name |-> "", configuration |-> "", source |-> "",
           category |-> "", extraction_success |-> FALSE]

\* ------------------------------------------------------------ the writer

\* The lock of the realm is held by no writer.
LockFree == lock = NoWriter

\* The hash of the payload of the n-th extraction: contents differ from
\* extraction to extraction.
BlobNames == <<"blob1", "blob2", "blob3", "blob4", "blob5", "blob6">>

\* perform_file_metadata_extraction / perform_dataset_metadata_extraction are
\* entered with the extractor constructed.
CallExtract(w, a, max) ==
    /\ pc[w] = "idle"
    /\ nwrites < max
    /\ nwrites' = nwrites + 1
    /\ pc' = [pc EXCEPT ![w] = "perform"]
    /\ args' = [args EXCEPT ![w] = a]
    /\ mem' = [mem EXCEPT ![w] = [NoMem EXCEPT !.number = nwrites + 1]]
    /\ UNCHANGED <<lock, store_tvl, store_uuid, store_refs, clock, hist, q, blobs, connector, custom_dataset, runprov>>

\* The path argument of meta-extract is an optional string.  get_path_info
\* makes the file tree path of it; get_file_info finds the files the dataset
\* tracks.
MetadataPathOf(path) ==
    CASE path = "" -> RootPath
      [] path = "d/f" -> FilePath
      [] path = "d/g" -> OtherFilePath
      [] path = "nofile" -> MissingFilePath
      [] OTHER -> <<path>>

GetPathInfo(path) == IF path = <<>> THEN RootPath ELSE MetadataPathOf(path[1])

TrackedFiles == {"d/f", "d/g"}

\* Extract.__call__: "if path and path != '--'" chooses file-level extraction,
\* everything else dataset-level extraction.
ExtractionModeOfGivenPath(path) == IF path # <<>> THEN "file" ELSE "dataset"

ExtractionMode(path) == IF path # <<>> /\ path[1] # "" /\ path[1] # "--" THEN "file" ELSE "dataset"

\* Extract.__call__ with do_file_extraction / do_dataset_extraction up to the
\* call of perform_*_metadata_extraction.
ExtractCall(w, path, a, max) ==
    /\ pc[w] = "idle"
    /\ nwrites < max
    /\ nwrites' = nwrites + 1
    /\ args' = [args EXCEPT ![w] = [a EXCEPT !.kind = ExtractionMode(path), !.file_tree_path = GetPathInfo(path)]]
    /\ IF ExtractionMode(path) = "file" /\ path[1] \notin TrackedFiles
       THEN /\ pc' = [pc EXCEPT ![w] = "failed"]
            /\ mem' = [mem EXCEPT ![w] = [NoMem EXCEPT !.number = nwrites + 1, !.path = path,
                                                       !.modes = {ExtractionMode(path)},
                                                       !.failed_at = "call", !.error = "FileNotFoundError"]]
       ELSE /\ pc' = [pc EXCEPT ![w] = "perform"]
            /\ mem' = [mem EXCEPT ![w] = [NoMem EXCEPT !.number = nwrites + 1, !.path = path,
                                                       !.modes = {ExtractionMode(path)}]]
    /\ UNCHANGED <<lock, store_tvl, store_uuid, store_refs, clock, hist, q, blobs, connector, custom_dataset, runprov>>

\* The command that raised before any pipeline has ended; the process is free
\* for the next command.
EndFailedCommand(w) ==
    /\ pc[w] = "failed"
    /\ mem[w].failed_at = "call"
    /\ pc' = [pc EXCEPT ![w] = "idle"]
    /\ UNCHANGED <<lock, store_tvl, store_uuid, store_refs, clock, nwrites, args, mem, hist, q, blobs,
                   connector, custom_dataset, runprov>>

\* perform_*_metadata_extraction: the dispatch on the output category and the
\* call of extract.  An unsuccessful extraction yields its result and returns.
\* The statement after the call of extract: the pipeline (through
\* copy_file_to_git for the FILE category) when the extraction succeeded,
\* otherwise the end of the generator, the result being yielded on the way.
AfterExtractIgnoringSuccess(a) == IF a.category = "IMMEDIATE" THEN "lock" ELSE "copy"

AfterExtract(a) ==
    IF ~a.extraction_success THEN "idle"
    ELSE IF a.category = "IMMEDIATE" THEN "lock" ELSE "copy"

PerformExtractionAnyCategory(w) ==
    /\ pc[w] = "perform"
    /\ mem' = [mem EXCEPT ![w].extract_called = TRUE,
                          ![w].yielded = IF args[w].extraction_success THEN @ ELSE @ + 1,
                          ![w].action = IF args[w].extraction_success THEN @ ELSE "meta_extract"]
    /\ pc' = [pc EXCEPT ![w] = AfterExtract(args[w])]
    /\ UNCHANGED <<lock, store_tvl, store_uuid, store_refs, clock, nwrites, args, hist, q, blobs, connector, custom_dataset, runprov>>

PerformExtraction(w) ==
    /\ pc[w] = "perform"
    /\ IF args[w].category = "DIRECTORY"
       THEN /\ pc' = [pc EXCEPT ![w] = "failed"]
            /\ mem' = [mem EXCEPT ![w].failed_at = "perform", ![w].error = "NotImplementedError"]
       ELSE /\ mem' = [mem EXCEPT ![w].extract_called = TRUE,
                                  ![w].yielded = IF args[w].extraction_success THEN @ ELSE @ + 1,
                                  ![w].action = IF args[w].extraction_success THEN @ ELSE "meta_extract"]
            /\ pc' = [pc EXCEPT ![w] = AfterExtract(args[w])]
    /\ UNCHANGED <<lock, store_tvl, store_uuid, store_refs, clock, nwrites, args, hist, q, blobs, connector, custom_dataset, runprov>>

\* add_file_metadata / add_dataset_metadata: copy_file_to_git writes the
\* payload to the object store, then the pipeline is entered with the hash.
CopyFileToGit(w) ==
    /\ pc[w] = "copy"
    /\ blobs' = blobs \cup {BlobNames[mem[w].number]}
    /\ mem' = [mem EXCEPT ![w].blob = BlobNames[mem[w].number], ![w].blob_writes = @ + 1]
    /\ pc' = [pc EXCEPT ![w] = "lock"]
    /\ UNCHANGED <<lock, store_tvl, store_uuid, store_refs, clock, nwrites, args, hist, q, connector, custom_dataset, runprov>>

\* perform_*_metadata_extraction after the pipeline returned: the result of
\* the extraction is yielded.
YieldResult(w) ==
    /\ pc[w] = "yield"
    /\ mem' = [mem EXCEPT ![w].yielded = @ + 1, ![w].action = "meta_extract"]
    /\ pc' = [pc EXCEPT ![w] = "idle"]
    /\ UNCHANGED <<lock, store_tvl, store_uuid, store_refs, clock, nwrites, args, hist, q, blobs, connector, custom_dataset, runprov>>

\* add_file_metadata_source / add_dataset_metadata_source are entered.
BeginWrite(w, a, max) ==
    /\ pc[w] = "idle"
    /\ nwrites < max
    /\ nwrites' = nwrites + 1
    /\ pc' = [pc EXCEPT ![w] = "lock"]
    /\ args' = [args EXCEPT ![w] = a]
    /\ mem' = [mem EXCEPT ![w] = NoMem]
    /\ UNCHANGED <<lock, store_tvl, store_uuid, store_refs, clock, hist, q, blobs, connector, custom_dataset, runprov>>

\* lock_backend(realm): blocks while another writer holds the lock.
LockBackendNoWait(w) ==
    /\ pc[w] = "lock"
    /\ lock' = w
    /\ pc' = [pc EXCEPT ![w] = "load"]
    /\ mem' = [mem EXCEPT ![w].pre_tvl = store_tvl, ![w].pre_uuid = store_uuid]
    /\ UNCHANGED <<store_tvl, store_uuid, store_refs, clock, nwrites, args, hist, q, blobs, connector, custom_dataset, runprov>>

LockBackend(w) ==
    /\ pc[w] = "lock"
    /\ LockFree
    /\ lock' = w
    /\ pc' = [pc EXCEPT ![w] = "load"]
    /\ mem' = [mem EXCEPT ![w].pre_tvl = store_tvl, ![w].pre_uuid = store_uuid]
    /\ UNCHANGED <<store_tvl, store_uuid, store_refs, clock, nwrites, args, hist, q, blobs, connector, custom_dataset, runprov>>

\* tree_version_list, uuid_set, mrr = get_top_nodes_and_metadata_root_record(...)
GetTopNodesBeforeLock(w) ==
    /\ pc[w] = "lock"
    /\ pc' = [pc EXCEPT ![w] = "locate"]
    /\ mem' = [mem EXCEPT ![w].tvl = TopTreeVersionList,
                          ![w].uuid_set = TopUUIDSet,
                          ![w].mrr = TopMetadataRootRecord(args[w])]
    /\ UNCHANGED <<lock, store_tvl, store_uuid, store_refs, clock, nwrites, args, hist, q, blobs, connector, custom_dataset, runprov>>

GetTopNodes(w) ==
    /\ pc[w] = "load"
    /\ pc' = [pc EXCEPT ![w] = "locate"]
    /\ mem' = [mem EXCEPT ![w].tvl = TopTreeVersionList,
                          ![w].uuid_set = TopUUIDSet,
                          ![w].mrr = TopMetadataRootRecord(args[w])]
    /\ UNCHANGED <<lock, store_tvl, store_uuid, store_refs, clock, nwrites, args, hist, q, blobs, connector, custom_dataset, runprov>>

\* add_file_metadata_source: the FileTree of the record and the Metadata of
\* the file path, each created when absent.
FreshFileTree(mrr) == EmptyTree(FileNodeOrder)

LocatedFileTree(mrr) == IF mrr.file_tree = <<>> THEN EmptyTree(FileNodeOrder) ELSE mrr.file_tree[1]

LocatedFileMetadata(mrr, path) ==
    IF InTree(LocatedFileTree(mrr), path) THEN LocatedFileTree(mrr)[path].value[1] ELSE <<>>

LocateFileMetadata(w) ==
    /\ pc[w] = "locate"
    /\ args[w].kind = "file"
    /\ pc' = [pc EXCEPT ![w] = "append"]
    /\ mem' = [mem EXCEPT
            ![w].metadata = LocatedFileMetadata(mem[w].mrr, args[w].file_tree_path),
            ![w].mrr = WithFileMetadata(@, LocatedFileTree(@), args[w].file_tree_path,
                                        LocatedFileMetadata(@, args[w].file_tree_path))]
    /\ UNCHANGED <<lock, store_tvl, store_uuid, store_refs, clock, nwrites, args, hist, q, blobs, connector, custom_dataset, runprov>>

\* add_dataset_metadata_source: the dataset-level Metadata of the record,
\* created when absent.
LocatedDatasetMetadata(mrr) ==
    IF mrr.dataset_level_metadata = <<>> THEN <<>> ELSE mrr.dataset_level_metadata[1]

LocateDatasetMetadata(w) ==
    /\ pc[w] = "locate"
    /\ args[w].kind = "dataset"
    /\ pc' = [pc EXCEPT ![w] = "append"]
    /\ mem' = [mem EXCEPT
            ![w].metadata = LocatedDatasetMetadata(mem[w].mrr),
            ![w].mrr = WithDatasetMetadata(@, LocatedDatasetMetadata(@))]
    /\ UNCHANGED <<lock, store_tvl, store_uuid, store_refs, clock, nwrites, args, hist, q, blobs, connector, custom_dataset, runprov>>

\* add_metadata_source: metadata.add_extractor_run(time.time(), ...); the
\* Metadata object is the one the record reaches.
MetadataSource(w) == IF mem[w].blob = "" THEN args[w].source ELSE mem[w].blob

NewInstanceStampedAtCall(w) ==
    [time_stamp |-> mem[w].number, author |-> w,
     configuration |-> args[w].configuration, metadata_location |-> MetadataSource(w)]

NewInstance(w) ==
    [time_stamp |-> clock, author |-> w,
     configuration |-> args[w].configuration, metadata_location |-> MetadataSource(w)]

Attached(w, metadata) ==
    IF args[w].kind = "file"
    THEN WithFileMetadata(mem[w].mrr, LocatedFileTree(mem[w].mrr), args[w].file_tree_path, metadata)
    ELSE WithDatasetMetadata(mem[w].mrr, metadata)

AddMetadataSourceAndSave(w) ==
    /\ pc[w] = "append"
    /\ pc' = [pc EXCEPT ![w] = "save_tvl"]
    /\ clock' = clock + 1
    /\ mem' = [mem EXCEPT
            ![w].time_stamp = clock,
            ![w].metadata = AddExtractorRun(mem[w].metadata, args[w].extractor_name, NewInstance(w)),
            ![w].mrr = Attached(w, AddExtractorRun(mem[w].metadata, args[w].extractor_name, NewInstance(w)))]
    /\ store_tvl' = <<MemTreeVersionList(mem'[w], args[w])>>
    /\ UNCHANGED <<lock, store_uuid, store_refs, nwrites, args, hist, q, blobs, connector, custom_dataset, runprov>>

AddMetadataSourceFresh(w) ==
    /\ pc[w] = "append"
    /\ pc' = [pc EXCEPT ![w] = "save_tvl"]
    /\ clock' = clock + 1
    /\ mem' = [mem EXCEPT
            ![w].time_stamp = clock,
            ![w].metadata = AddExtractorRun(<<>>, args[w].extractor_name, NewInstance(w)),
            ![w].mrr = Attached(w, AddExtractorRun(<<>>, args[w].extractor_name, NewInstance(w)))]
    /\ UNCHANGED <<lock, store_tvl, store_uuid, store_refs, nwrites, args, hist, q, blobs, connector, custom_dataset, runprov>>

AddMetadataSource(w) ==
    /\ pc[w] = "append"
    /\ pc' = [pc EXCEPT ![w] = "save_tvl"]
    /\ clock' = clock + 1
    /\ mem' = [mem EXCEPT
            ![w].time_stamp = clock,
            ![w].metadata = AddExtractorRun(mem[w].metadata, args[w].extractor_name, NewInstance(w)),
            ![w].mrr = Attached(w, AddExtractorRun(mem[w].metadata, args[w].extractor_name, NewInstance(w)))]
    /\ UNCHANGED <<lock, store_tvl, store_uuid, store_refs, nwrites, args, hist, q, blobs, connector, custom_dataset, runprov>>

\* tree_version_list.save()
SaveTreeVersionList(w) ==
    /\ pc[w] = "save_tvl"
    /\ pc' = [pc EXCEPT ![w] = "save_uuid"]
    /\ store_tvl' = <<MemTreeVersionList(mem[w], args[w])>>
    /\ UNCHANGED <<lock, store_uuid, store_refs, clock, nwrites, args, mem, hist, q, blobs, connector, custom_dataset, runprov>>

\* uuid_set.save()
SaveUUIDSetAndLeave(w) ==
    /\ pc[w] = "save_uuid"
    /\ pc' = [pc EXCEPT ![w] = "unlock"]
    /\ store_uuid' = <<MemUUIDSet(mem[w], args[w])>>
    /\ UNCHANGED <<lock, store_tvl, store_refs, clock, nwrites, args, mem, hist, q, blobs, connector, custom_dataset, runprov>>

SaveUUIDSet(w) ==
    /\ pc[w] = "save_uuid"
    /\ pc' = [pc EXCEPT ![w] = "flush"]
    /\ store_uuid' = <<MemUUIDSet(mem[w], args[w])>>
    /\ UNCHANGED <<lock, store_tvl, store_refs, clock, nwrites, args, mem, hist, q, blobs, connector, custom_dataset, runprov>>

\* flush_object_references(realm)
FlushObjectReferences(w) ==
    /\ pc[w] = "flush"
    /\ pc' = [pc EXCEPT ![w] = "unlock"]
    /\ store_refs' = store_refs \cup {mem[w].time_stamp}
    /\ UNCHANGED <<lock, store_tvl, store_uuid, clock, nwrites, args, mem, hist, q, blobs, connector, custom_dataset, runprov>>

\* The statement the pipeline returns to: the yield of a metalad legacy
\* extraction, the loop of a datalad legacy extraction, the yield of
\* perform_*_metadata_extraction, or a direct caller.
ReturnOfPipeline(m) ==
    IF m.legacy.family = "metalad" THEN "legacy_yield"
    ELSE IF m.legacy.family = "datalad" THEN "legacy_next"
    ELSE IF m.extract_called THEN "yield" ELSE "idle"

\* unlock_backend(realm), and the return of the pipeline to its caller.
UnlockBackendKeepingLock(w) ==
    /\ pc[w] = "unlock"
    /\ pc' = [pc EXCEPT ![w] = ReturnOfPipeline(mem[w])]
    /\ hist' = Append(hist, [writer |-> w, args |-> args[w], time_stamp |-> mem[w].time_stamp])
    /\ UNCHANGED <<lock, store_tvl, store_uuid, store_refs, clock, nwrites, args, mem, q, blobs, connector, custom_dataset, runprov>>

UnlockBackend(w) ==
    /\ pc[w] = "unlock"
    /\ pc' = [pc EXCEPT ![w] = ReturnOfPipeline(mem[w])]
    /\ lock' = IF lock = w THEN NoWriter ELSE lock
    /\ hist' = Append(hist, [writer |-> w, args |-> args[w], time_stamp |-> mem[w].time_stamp])
    /\ UNCHANGED <<store_tvl, store_uuid, store_refs, clock, nwrites, args, mem, q, blobs, connector, custom_dataset, runprov>>

\* A call of the pipeline raises: the exception leaves the function, no
\* statement after the call runs.
FailingSteps == {"load", "locate", "append", "save_tvl", "save_uuid", "flush"}

Raise(w) ==
    /\ pc[w] \in FailingSteps
    /\ pc' = [pc EXCEPT ![w] = "failed"]
    /\ mem' = [mem EXCEPT ![w].failed_at = pc[w]]
    /\ UNCHANGED <<lock, store_tvl, store_uuid, store_refs, clock, nwrites, args, hist, q, blobs, connector, custom_dataset, runprov>>

\* ------------------------------------------------------ legacy extraction

\* What the loop of a legacy extraction runs over: the results a metalad
\* extractor yields; the one dataset result or the file results of
\* get_metadata of a datalad extractor.  A result is its place in the
\* produced sequence and its status.
LegacyItems(kind, family, results) ==
    IF family = "datalad" /\ kind = "dataset" THEN <<[number |-> 1, status |-> "ok"]>> ELSE results

\* do_dataset_extraction / do_file_extraction with an extractor class that is
\* no MetadataExtractorBase, up to the loop of legacy_extract_dataset /
\* legacy_extract_file; a class of neither legacy family raises ValueError.
LegacyCall(w, a, family, results, max) ==
    /\ pc[w] = "idle"
    /\ nwrites < max
    /\ nwrites' = nwrites + 1
    /\ args' = [args EXCEPT ![w] = a]
    /\ IF family \in {"metalad", "datalad"}
       THEN /\ pc' = [pc EXCEPT ![w] = "legacy_next"]
            /\ mem' = [mem EXCEPT ![w] = [NoMem EXCEPT !.number = nwrites + 1,
                            !.legacy = [NoLegacy EXCEPT !.family = family, !.hist_before = Len(hist),
                                                        !.results = LegacyItems(a.kind, family, results)]]]
       ELSE /\ pc' = [pc EXCEPT ![w] = "failed"]
            /\ mem' = [mem EXCEPT ![w] = [NoMem EXCEPT !.number = nwrites + 1,
                            !.failed_at = "legacy", !.error = "ValueError",
                            !.legacy = [NoLegacy EXCEPT !.family = family, !.hist_before = Len(hist)]]]
    /\ UNCHANGED <<lock, store_tvl, store_uuid, store_refs, clock, hist, q, blobs, connector, custom_dataset, runprov>>

\* The head of the loop: the generator returns after the last result; a
\* result of a metalad extractor with status "ok" and every result of a
\* datalad extractor enters add_*_metadata_source; any other result goes to
\* the yield.
LegacyStepOfAnyStatus(family, result) == "lock"

LegacyStepOf(family, result) ==
    IF family = "datalad" \/ result.status = "ok" THEN "lock" ELSE "legacy_yield"

LegacyNext(w) ==
    /\ pc[w] = "legacy_next"
    /\ IF mem[w].legacy.pos = Len(mem[w].legacy.results)
       THEN /\ pc' = [pc EXCEPT ![w] = "idle"]
            /\ mem' = mem
       ELSE /\ pc' = [pc EXCEPT ![w] =
                    LegacyStepOf(mem[w].legacy.family, mem[w].legacy.results[mem[w].legacy.pos + 1])]
            /\ mem' = [mem EXCEPT ![w].legacy.pos = @ + 1]
    /\ UNCHANGED <<lock, store_tvl, store_uuid, store_refs, clock, nwrites, args, hist, q, blobs, connector, custom_dataset, runprov>>

\* yield result: the result is handed to the consumer and the generator is
\* suspended at the yield.
LegacyYield(w) ==
    /\ pc[w] = "legacy_yield"
    /\ pc' = [pc EXCEPT ![w] = "suspended"]
    /\ mem' = [mem EXCEPT ![w].legacy.emitted = Append(@, mem[w].legacy.results[mem[w].legacy.pos])]
    /\ UNCHANGED <<lock, store_tvl, store_uuid, store_refs, clock, nwrites, args, hist, q, blobs, connector, custom_dataset, runprov>>

\* The consumer asks for the next result: the generator runs on from the yield.
ResumeLegacy(w) ==
    /\ pc[w] = "suspended"
    /\ pc' = [pc EXCEPT ![w] = "legacy_next"]
    /\ UNCHANGED <<lock, store_tvl, store_uuid, store_refs, clock, nwrites, args, mem, hist, q, blobs, connector, custom_dataset, runprov>>

\* The consumer stops iterating: the generator is closed at the yield and no
\* statement of it runs any more.
StopIterating(w) ==
    /\ pc[w] = "suspended"
    /\ pc' = [pc EXCEPT ![w] = "idle"]
    /\ mem' = [mem EXCEPT ![w].legacy.closed = TRUE]
    /\ UNCHANGED <<lock, store_tvl, store_uuid, store_refs, clock, nwrites, args, hist, q, blobs, connector, custom_dataset, runprov>>

\* ------------------------------------------------------------ tree search

\* TreeSearch(tree).get_matching_paths([pattern], recursive, auto_list_root=False):
\* a pattern resolves when every segment names a child; a resolved node is one
\* match, or with recursive every node at or below it that carries a value,
\* in pre-order.  A pattern that does not resolve is reported as not found.
Resolves(tree, pattern) == pattern \in DOMAIN tree /\ tree[pattern].exists

MatchRecord(tree, path) == [path |-> path, node |-> tree[path]]

RecursiveMatches(tree, order, pattern) ==
    LET below(p) == IsPrefix(pattern, p) /\ InTree(tree, p)
        paths == SelectSeq(order, below)
    IN  [i \in 1..Len(paths) |-> MatchRecord(tree, paths[i])]

DeepestResolved(tree, pattern) ==
    LET k == CHOOSE k \in 0..Len(pattern) :
                /\ Resolves(tree, SubSeq(pattern, 1, k))
                /\ \A j \in (k + 1)..Len(pattern) : ~Resolves(tree, SubSeq(pattern, 1, j))
    IN  SubSeq(pattern, 1, k)

GetMatchingPathsOrAncestor(tree, order, pattern, recursive) ==
    IF ~Resolves(tree, pattern)
    THEN [matches |-> <<MatchRecord(tree, DeepestResolved(tree, pattern))>>, not_found |-> <<pattern>>]
    ELSE IF recursive THEN [matches |-> RecursiveMatches(tree, order, pattern), not_found |-> <<>>]
    ELSE [matches |-> <<MatchRecord(tree, pattern)>>, not_found |-> <<>>]

GetMatchingPaths(tree, order, pattern, recursive) ==
    IF ~Resolves(tree, pattern) THEN [matches |-> <<>>, not_found |-> <<pattern>>]
    ELSE IF recursive THEN [matches |-> RecursiveMatches(tree, order, pattern), not_found |-> <<>>]
    ELSE [matches |-> <<MatchRecord(tree, pattern)>>, not_found |-> <<>>]

\* ------------------------------------------------------------- the query

NoQuery == [address |-> "tree", dataset_path |-> RootPath, version |-> <<>>, local_path |-> RootPath,
            report_on |-> "datasets", report_policy |-> "individual", recursive |-> FALSE]

\* The query process: its position, its arguments, the TreeVersionList it
\* loaded, the version and DatasetTree it resolved, the matches of the search
\* and the one it works on, what it has yielded (records: each record as it
\* was when yielded, history; held: the records as the consumer holds them
\* now) and warned about, the error
\* that ended it, the connectors it holds loaded (loaded) and every load it
\* made (loads), whether it parsed its address, and the writers that had
\* failed when it was called (history).
IdleQuery ==
    [pc |-> "idle", args |-> NoQuery, tvl |-> <<>>, tree |-> EmptyTree(DatasetNodeOrder),
     matches |-> <<>>, idx |-> 0, records |-> <<>>, held |-> <<>>, warnings |-> <<>>, failed_before |-> {},
     error |-> "", loaded |-> {}, loads |-> {}, version |-> <<>>, parsed |-> FALSE]

\* A connector of the MetadataRootRecord of match number match.
ConnectorOf(match, object) == [match |-> match, object |-> object]

\* _create_result_record over the metadata of one extractor of one element.
ResultRecord(type, dataset_path, file_path, entry) ==
    [status |-> "ok", type |-> type, dataset_path |-> dataset_path, file_path |-> file_path,
     extractor_name |-> entry.extractor_name, runs |-> entry.instances]

ImpossibleRecord ==
    [status |-> "impossible", type |-> "", dataset_path |-> RootPath, file_path |-> RootPath,
     extractor_name |-> "", runs |-> <<>>]

\* get_top_level_metadata_objects: both top-level objects, or neither.
TopLevelObjectsEither == store_tvl

TopLevelObjects == IF store_tvl = <<>> \/ store_uuid = <<>> THEN <<>> ELSE store_tvl

\* Dump.__call__ up to the dispatch on the parsed address.
DumpCallWhenUnlocked(a) ==
    /\ q.pc \in {"idle", "done", "error", "impossible"}
    /\ LockFree
    /\ q' = IF TopLevelObjects = <<>>
            THEN [IdleQuery EXCEPT !.pc = "impossible", !.args = a,
                                   !.records = <<ImpossibleRecord>>, !.held = <<ImpossibleRecord>>,
                                   !.failed_before = {w \in Writers : pc[w] = "failed"}]
            ELSE [IdleQuery EXCEPT !.pc = IF a.address = "uuid" THEN "dump_uuid" ELSE "dump",
                                   !.args = a, !.tvl = TopLevelObjects, !.parsed = TRUE,
                                   !.failed_before = {w \in Writers : pc[w] = "failed"}]
    /\ UNCHANGED <<lock, store_tvl, store_uuid, store_refs, clock, nwrites, pc, args, mem, hist, blobs, connector, custom_dataset, runprov>>

DumpCall(a) ==
    /\ q.pc \in {"idle", "done", "error", "impossible"}
    /\ q' = IF TopLevelObjects = <<>>
            THEN [IdleQuery EXCEPT !.pc = "impossible", !.args = a,
                                   !.records = <<ImpossibleRecord>>, !.held = <<ImpossibleRecord>>,
                                   !.failed_before = {w \in Writers : pc[w] = "failed"}]
            ELSE [IdleQuery EXCEPT !.pc = IF a.address = "uuid" THEN "dump_uuid" ELSE "dump",
                                   !.args = a, !.tvl = TopLevelObjects, !.parsed = TRUE,
                                   !.failed_before = {w \in Writers : pc[w] = "failed"}]
    /\ UNCHANGED <<lock, store_tvl, store_uuid, store_refs, clock, nwrites, pc, args, mem, hist, blobs, connector, custom_dataset, runprov>>

\* dump_from_uuid_set
DumpFromUUIDSetAsTree ==
    /\ q.pc = "dump_uuid"
    /\ q' = [q EXCEPT !.pc = "dump"]
    /\ UNCHANGED <<lock, store_tvl, store_uuid, store_refs, clock, nwrites, pc, args, mem, hist, blobs, connector, custom_dataset, runprov>>

DumpFromUUIDSet ==
    /\ q.pc = "dump_uuid"
    /\ q' = [q EXCEPT !.pc = "error", !.error = "NotImplementedError"]
    /\ UNCHANGED <<lock, store_tvl, store_uuid, store_refs, clock, nwrites, pc, args, mem, hist, blobs, connector, custom_dataset, runprov>>

\* The version the query reads: the requested one, or the first of the list.
RequestedVersion(tvl, a) == IF a.version = <<>> THEN tvl[1].version ELSE a.version[1]

\* The statement the loop over the matches reaches next.
NextMatchIgnoringScope(a, idx, n) == IF idx > n THEN "done" ELSE "show_dataset"

NextMatch(a, idx, n) ==
    IF idx > n THEN "done"
    ELSE IF a.report_on \in {"datasets", "all"} THEN "show_dataset" ELSE "show_files"

\* dump_from_dataset_tree from the assert to the search.
SearchDatasetTree ==
    LET tvl == q.tvl[1]
        a == q.args
    IN  IF tvl = <<>> THEN q' = [q EXCEPT !.pc = "error", !.error = "IndexError"]
        ELSE IF ~HasVersion(tvl, RequestedVersion(tvl, a))
        THEN q' = [q EXCEPT !.pc = "error", !.error = "KeyError",
                            !.version = <<RequestedVersion(tvl, a)>>]
        ELSE LET tree == GetDatasetTree(tvl, RequestedVersion(tvl, a))
                 found == GetMatchingPaths(tree, DatasetNodeOrder, a.dataset_path, a.recursive)
             IN  IF tree[RootPath].value = <<>>
                 THEN q' = [q EXCEPT !.pc = "error", !.error = "AttributeError", !.tree = tree,
                                     !.version = <<RequestedVersion(tvl, a)>>]
                 ELSE q' = [q EXCEPT !.pc = NextMatch(a, 1, Len(found.matches)), !.tree = tree,
                                     !.version = <<RequestedVersion(tvl, a)>>,
                                     !.matches = found.matches, !.idx = 1,
                                     !.warnings = found.not_found]

\* dump_from_dataset_tree up to its loop.  The assert on the report policy
\* raises where asserts are compiled in and is skipped under python -O.
DumpFromDatasetTreeAggregate ==
    /\ q.pc = "dump"
    /\ \/ /\ q.args.report_policy # "individual"
          /\ q' = [q EXCEPT !.pc = "done",
                            !.records = <<[ImpossibleRecord EXCEPT !.status = "ok", !.type = "complete"]>>,
                            !.held = <<[ImpossibleRecord EXCEPT !.status = "ok", !.type = "complete"]>>]
       \/ SearchDatasetTree
    /\ UNCHANGED <<lock, store_tvl, store_uuid, store_refs, clock, nwrites, pc, args, mem, hist, blobs, connector, custom_dataset, runprov>>

DumpFromDatasetTree ==
    /\ q.pc = "dump"
    /\ \/ /\ q.args.report_policy # "individual"
          /\ q' = [q EXCEPT !.pc = "error", !.error = "AssertionError"]
       \/ SearchDatasetTree
    /\ UNCHANGED <<lock, store_tvl, store_uuid, store_refs, clock, nwrites, pc, args, mem, hist, blobs, connector, custom_dataset, runprov>>

\* The records of one Metadata object: one per extractor, holding its runs.
MetadataRecords(type, dataset_path, file_path, metadata) ==
    [i \in 1..Len(metadata) |-> ResultRecord(type, dataset_path, file_path, metadata[i])]

\* The same records as the consumer holds them after the loop over the
\* extractors: every record refers to the one result_json_object of the loop,
\* whose "metadata" entry was assigned anew for each extractor and is left as
\* the mapping of the last one.
HeldRecords(type, dataset_path, file_path, metadata) ==
    [i \in 1..Len(metadata) |-> ResultRecord(type, dataset_path, file_path, metadata[Len(metadata)])]

\* show_dataset_metadata for the current match, up to its last yield: the
\* dataset-level Metadata is loaded and its records are yielded.
ShowDatasetMetadata ==
    /\ q.pc = "show_dataset"
    /\ LET match == q.matches[q.idx]
       IN  IF match.node.value = <<>> \/ match.node.value[1].dataset_level_metadata = <<>>
           THEN q' = [q EXCEPT !.pc = "error", !.error = "AttributeError"]
           ELSE q' = [q EXCEPT
                    !.loaded = @ \cup {ConnectorOf(q.idx, "dataset_level_metadata")},
                    !.loads = @ \cup {ConnectorOf(q.idx, "dataset_level_metadata")},
                    !.records = @ \o MetadataRecords("dataset", match.path, RootPath,
                                                     match.node.value[1].dataset_level_metadata[1]),
                    !.held = @ \o HeldRecords("dataset", match.path, RootPath,
                                              match.node.value[1].dataset_level_metadata[1]),
                    !.pc = "purge_dataset"]
    /\ UNCHANGED <<lock, store_tvl, store_uuid, store_refs, clock, nwrites, pc, args, mem, hist, blobs, connector, custom_dataset, runprov>>

\* show_dataset_metadata after its last yield: the purge, and the return to
\* the loop of dump_from_dataset_tree.
AfterDatasetMetadata(a, idx, n) == IF a.report_on = "all" THEN "show_files" ELSE NextMatch(a, idx + 1, n)

KeepDatasetMetadata ==
    /\ q.pc = "purge_dataset"
    /\ q' = [q EXCEPT
            !.pc = AfterDatasetMetadata(q.args, q.idx, Len(q.matches)),
            !.idx = IF q.args.report_on = "all" THEN @ ELSE @ + 1]
    /\ UNCHANGED <<lock, store_tvl, store_uuid, store_refs, clock, nwrites, pc, args, mem, hist, blobs, connector, custom_dataset, runprov>>

PurgeDatasetMetadata ==
    /\ q.pc = "purge_dataset"
    /\ q' = [q EXCEPT
            !.loaded = @ \ {ConnectorOf(q.idx, "dataset_level_metadata")},
            !.pc = AfterDatasetMetadata(q.args, q.idx, Len(q.matches)),
            !.idx = IF q.args.report_on = "all" THEN @ ELSE @ + 1]
    /\ UNCHANGED <<lock, store_tvl, store_uuid, store_refs, clock, nwrites, pc, args, mem, hist, blobs, connector, custom_dataset, runprov>>

\* The records of the matched file nodes: a node without Metadata is skipped.
FileRecordsOfEveryNode(dataset_path, matches) ==
    LET recs[i \in 0..Len(matches)] == IF i = 0 THEN <<>> ELSE
            recs[i - 1] \o MetadataRecords("file", dataset_path, matches[i].path,
                                IF matches[i].node.value = <<>> THEN <<[extractor_name |-> "", instances |-> <<>>]>>
                                ELSE matches[i].node.value[1])
    IN  recs[Len(matches)]

FileRecords(dataset_path, matches) ==
    LET recs[i \in 0..Len(matches)] == IF i = 0 THEN <<>> ELSE
            recs[i - 1] \o (IF matches[i].node.value = <<>> THEN <<>>
                            ELSE MetadataRecords("file", dataset_path, matches[i].path, matches[i].node.value[1]))
    IN  recs[Len(matches)]

\* The records of the matched file nodes as the consumer holds them: one
\* result_json_object per matched node.
HeldFileRecords(dataset_path, matches) ==
    LET recs[i \in 0..Len(matches)] == IF i = 0 THEN <<>> ELSE
            recs[i - 1] \o (IF matches[i].node.value = <<>> THEN <<>>
                            ELSE HeldRecords("file", dataset_path, matches[i].path, matches[i].node.value[1]))
    IN  recs[Len(matches)]

\* show_file_tree_metadata for the current match, up to its last yield: the
\* FileTree is loaded and searched, the records of the matches are yielded.
ShowFileTreeMetadata ==
    /\ q.pc = "show_files"
    /\ LET match == q.matches[q.idx]
           a == q.args
       IN  IF match.node.value = <<>> \/ match.node.value[1].file_tree = <<>>
           THEN q' = [q EXCEPT !.pc = "error", !.error = "AttributeError"]
           ELSE LET found == GetMatchingPaths(match.node.value[1].file_tree[1], FileNodeOrder,
                                              a.local_path, a.recursive)
                IN  q' = [q EXCEPT
                        !.loaded = @ \cup {ConnectorOf(q.idx, "file_tree")},
                        !.loads = @ \cup {ConnectorOf(q.idx, "file_tree")},
                        !.warnings = @ \o found.not_found,
                        !.records = @ \o FileRecords(match.path, found.matches),
                        !.held = @ \o HeldFileRecords(match.path, found.matches),
                        !.pc = "purge_files"]
    /\ UNCHANGED <<lock, store_tvl, store_uuid, store_refs, clock, nwrites, pc, args, mem, hist, blobs, connector, custom_dataset, runprov>>

\* show_file_tree_metadata after its last yield: the purge, and the return to
\* the loop of dump_from_dataset_tree.
PurgeFileTree ==
    /\ q.pc = "purge_files"
    /\ q' = [q EXCEPT
            !.loaded = @ \ {ConnectorOf(q.idx, "file_tree")},
            !.pc = NextMatch(q.args, q.idx + 1, Len(q.matches)),
            !.idx = @ + 1]
    /\ UNCHANGED <<lock, store_tvl, store_uuid, store_refs, clock, nwrites, pc, args, mem, hist, blobs, connector, custom_dataset, runprov>>

\* ---------------------------------------------------------- the Connector

MaxConnectorCalls == 4

\* A Connector wraps a Reference, here the one to the TreeVersionList of the
\* realm, and owns at most one cached object.  The cached object is
\* [id, value]: id tells one in-memory object from another, value is the
\* persisted state it was read from.  fetches counts the reads of the backing
\* store; calls records the calls made, each with what it returned, the state
\* it left and what was persisted when it was made (history).
NewConnector == [loaded |-> FALSE, object |-> <<>>, fetches |-> 0, calls |-> <<>>]

ConnectorCall(op, c, error) ==
    [op |-> op, object |-> c.object, loaded |-> c.loaded, fetches |-> c.fetches, error |-> error,
     store |-> store_tvl]

\* Connector.load_object: unloaded -> loaded by a read of the backing store,
\* which fails when the object is not there; while loaded, the cached object.
Fetched(c) ==
    IF store_tvl = <<>> THEN [c EXCEPT !.fetches = @ + 1]
    ELSE [c EXCEPT !.loaded = TRUE, !.fetches = @ + 1,
                   !.object = <<[id |-> c.fetches + 1, value |-> store_tvl[1]]>>]

LoadedObjectRefetched(c) == Fetched(c)

LoadedObject(c) == IF c.loaded THEN c ELSE Fetched(c)

LoadObject ==
    /\ Len(connector.calls) < MaxConnectorCalls
    /\ connector' = [LoadedObject(connector) EXCEPT
            !.calls = Append(@, ConnectorCall("load", LoadedObject(connector),
                                IF LoadedObject(connector).loaded THEN "" ELSE "StorageUnavailable"))]
    /\ UNCHANGED <<lock, store_tvl, store_uuid, store_refs, clock, nwrites, pc, args, mem, hist, q, blobs,
                   custom_dataset, runprov>>

\* Connector.purge: loaded -> unloaded, the cache is discarded; a no-op when
\* unloaded.
PurgedKeepingCache(c) == c

Purged(c) == [c EXCEPT !.loaded = FALSE, !.object = <<>>]

Purge ==
    /\ Len(connector.calls) < MaxConnectorCalls
    /\ connector' = [Purged(connector) EXCEPT !.calls = Append(@, ConnectorCall("purge", Purged(connector), ""))]
    /\ UNCHANGED <<lock, store_tvl, store_uuid, store_refs, clock, nwrites, pc, args, mem, hist, q, blobs,
                   custom_dataset, runprov>>

\* ------------------------------------------------- the custom_dataset extractor

MaxConfigured == 2

DefaultSource == ".metadata/dataset.json"

\* The value of 'datalad.metadata.custom-dataset-source': unset, one string,
\* or a list of strings.
Unset == [kind |-> "unset", values |-> <<>>]

\* ensure_list: a list of a single string, the list itself, [] for the default.
EnsureList(cfg) == IF cfg.kind = "single" THEN <<cfg.values>> ELSE cfg.values

\* The extractor: its position, the configuration and the state of the default
\* file of its dataset, and the two lists _get_dsmeta_srcfiles returned.
NoCustomDataset ==
    [pc |-> "idle", cfg |-> Unset, default_exists |-> FALSE, default_is_symlink |-> FALSE,
     srcfiles |-> <<>>, cfg_srcfiles |-> <<>>]

\* CustomDatasetMetadata.get_metadata is called on a dataset.
GetMetadata(cfg, default_exists, default_is_symlink) ==
    /\ custom_dataset.pc \in {"idle", "done"}
    /\ custom_dataset' = [NoCustomDataset EXCEPT !.pc = "srcfiles", !.cfg = cfg,
                                                 !.default_exists = default_exists,
                                                 !.default_is_symlink = default_is_symlink]
    /\ UNCHANGED <<lock, store_tvl, store_uuid, store_refs, clock, nwrites, pc, args, mem, hist, q, blobs,
                   connector, runprov>>

\* _get_dsmeta_srcfiles
SrcfilesWithDefault(cfg_srcfiles, default_exists, default_is_symlink) ==
    cfg_srcfiles \o (IF default_exists \/ default_is_symlink THEN <<DefaultSource>> ELSE <<>>)

Srcfiles(cfg_srcfiles, default_exists, default_is_symlink) ==
    IF cfg_srcfiles = <<>>
    THEN IF default_exists \/ default_is_symlink THEN <<DefaultSource>> ELSE <<>>
    ELSE cfg_srcfiles

GetDsmetaSrcfiles ==
    /\ custom_dataset.pc = "srcfiles"
    /\ custom_dataset' = [custom_dataset EXCEPT
            !.pc = "done",
            !.cfg_srcfiles = EnsureList(custom_dataset.cfg),
            !.srcfiles = Srcfiles(EnsureList(custom_dataset.cfg), custom_dataset.default_exists,
                                  custom_dataset.default_is_symlink)]
    /\ UNCHANGED <<lock, store_tvl, store_uuid, store_refs, clock, nwrites, pc, args, mem, hist, q, blobs,
                   connector, runprov>>

\* ------------------------------------------------------ the runprov extractor

MaxRunRecords == 2

\* The paths of the dataset that run records change, and the commits that
\* carry the run records, latest first as git log gives them.
RunPaths == <<"f", "g">>

RunCommits == <<"run4", "run3", "run2", "run1">>

Deleted == "000000"

\* The diff of a commit, one entry per path it changed: change[p] is "none",
\* the mode of the path after the commit, or Deleted.
DiffOf(commit, change) ==
    LET entry(i) == [path |-> RunPaths[i], mode |-> change[RunPaths[i]],
                     gitshasum |-> IF change[RunPaths[i]] = Deleted THEN "0000" ELSE commit \o ":" \o RunPaths[i]]
        changed(d) == d.mode # "none"
    IN  SelectSeq([i \in 1..Len(RunPaths) |-> entry(i)], changed)

\* yield_run_records reads the output of git log line by line.  A line is
\* the sequence of its fields: the header line of a commit has four fields
\* separated by NUL, a raw diff line has the colon, the two modes, the two
\* shasums, the status and, after the tab, the path; every other line is one
\* field.
RecordMarker == <<"%x00%x00record%x00">>

DiffMarker == <<"%x00%x00diff%x00">>

OpenText == "=== Do not change lines below ==="

CloseText == "^^^ Do not change lines above ^^^"

\* The line of a message that quotes the opening marker indented, as the
\* message of a squash merge does: git log --grep -F selects the commit for
\* it.
IndentedText == "    === Do not change lines below ==="

\* The run record of datalad run on one line and on two, and a run record
\* that is the name of a file under .datalad/runinfo.
DictText == "{\"cmd\": \"ls\"}"

DictHead == "{\"cmd\":"

DictTail == " \"ls\"}"

NameText == "\"r1\""

RunInfoFiles == {"r1"}

\* str.strip() of a text of the alphabet.
StripText(t) == IF t = IndentedText THEN OpenText ELSE t

\* _split_record_message: the loop over the body lines, then
\* '\n'.join(msg).strip(), as the sequence of the lines of the result (blank
\* lines at both ends go, and the white space at the ends of what is left),
\* and ''.join(run).
SplitRecordMessage(lines) ==
    LET RECURSIVE SplitFrom(_, _, _, _)
        SplitFrom(i, inrec, msg, run) ==
            IF i > Len(lines) THEN [msg |-> msg, run |-> run]
            ELSE IF lines[i] = <<OpenText>> THEN SplitFrom(i + 1, TRUE, msg, run)
            ELSE IF lines[i] = <<CloseText>> THEN SplitFrom(i + 1, FALSE, msg, run)
            ELSE IF inrec THEN SplitFrom(i + 1, inrec, msg, Append(run, lines[i]))
            ELSE SplitFrom(i + 1, inrec, Append(msg, lines[i]), run)
        RECURSIVE JoinRun(_)
        JoinRun(run) == IF run = <<>> THEN "" ELSE run[1][1] \o JoinRun(Tail(run))
        RECURSIVE DropBlankHead(_)
        DropBlankHead(msg) ==
            IF msg = <<>> THEN <<>>
            ELSE IF msg[1] = <<"">> THEN DropBlankHead(Tail(msg))
            ELSE msg
        RECURSIVE DropBlankTail(_)
        DropBlankTail(msg) ==
            IF msg = <<>> THEN <<>>
            ELSE IF msg[Len(msg)] = <<"">> THEN DropBlankTail(SubSeq(msg, 1, Len(msg) - 1))
            ELSE msg
        split == SplitFrom(1, FALSE, <<>>, <<>>)
        kept == DropBlankTail(DropBlankHead(split.msg))
    IN  [msg |-> [i \in 1..Len(kept) |-> IF i \in {1, Len(kept)} THEN StripText(kept[i][1]) ELSE kept[i][1]],
         run |-> JoinRun(split.run)]

\* _finalize_record: the record without its body, with the message and the
\* run record, or the exception of jsonloads, which decodes the text of a
\* dict and of a name, or of jsonload.
FinalizeRecord(r, runinfo) ==
    LET split == SplitRecordMessage(r.body)
        done(run_record) ==
            [error |-> "",
             record |-> [gitshasum |-> r.gitshasum, author_name |-> r.author_name,
                         author_email |-> r.author_email, commit_date |-> r.commit_date,
                         diff |-> r.diff, message |-> split.msg, run_record |-> run_record]]
    IN  IF split.run \notin {DictText, NameText} THEN [error |-> "JSONDecodeError", record |-> <<>>]
        ELSE IF split.run = DictText THEN done([cmd |-> "ls"])
        ELSE IF "r1" \in runinfo THEN done([cmd |-> "make"])
        ELSE [error |-> "FileNotFoundError", record |-> <<>>]

\* The reader of the log: its position, the lines and the run info files of
\* the dataset, the number of the line it reads next, the record it fills
\* (none: <<>>), whether it is in the diff of the record, the records it
\* yielded and the exception it ended with.
NoGitLog == [pc |-> "idle", lines |-> <<>>, runinfo |-> {}, at |-> 0, record |-> <<>>, indiff |-> FALSE,
             yielded |-> <<>>, error |-> "", blocks |-> <<>>]

\* The extractor: its position, the run records, the number of the record it
\* reads next, and the lookup table from a path to the activity recorded for
\* it (none: <<>>).
EmptyPathDb == [p \in Range(RunPaths) |-> <<>>]

NoRunProv == [pc |-> "idle", records |-> <<>>, pos |-> 0, path_db |-> EmptyPathDb, log |-> NoGitLog]

\* RunProvenanceExtractor.__call__ is entered: yield_run_records(ds).
YieldRunRecords(records) ==
    /\ runprov.pc \in {"idle", "done"}
    /\ runprov' = [NoRunProv EXCEPT !.pc = IF records = <<>> THEN "done" ELSE "read",
                                    !.records = records, !.pos = 1]
    /\ UNCHANGED <<lock, store_tvl, store_uuid, store_refs, clock, nwrites, pc, args, mem, hist, q, blobs,
                   connector, custom_dataset>>

\* The loop over the diff of one run record: a path that has an entry is
\* skipped, a deleted path is skipped, every other path gets the record as
\* its activity.
PathDbAfter(path_db, rec) ==
    [p \in DOMAIN path_db |->
        IF path_db[p] # <<>> THEN path_db[p]
        ELSE IF \E d \in Range(rec.diff) : d.path = p /\ d.mode # Deleted
        THEN LET d == CHOOSE d \in Range(rec.diff) : d.path = p
             IN  <<[activity |-> rec.gitshasum, gitshasum |-> d.gitshasum]>>
        ELSE <<>>]

ReadRunRecord ==
    /\ runprov.pc = "read"
    /\ runprov' = [runprov EXCEPT
            !.path_db = PathDbAfter(@, runprov.records[runprov.pos]),
            !.pos = @ + 1,
            !.pc = IF runprov.pos = Len(runprov.records) THEN "done" ELSE "read"]
    /\ UNCHANGED <<lock, store_tvl, store_uuid, store_refs, clock, nwrites, pc, args, mem, hist, q, blobs,
                   connector, custom_dataset>>

\* The output of git log for the commits it selects, latest first: for each
\* the record marker, the header line, the lines of the message, the diff
\* marker and the lines of the raw diff.
RECURSIVE LinesOf(_)
LinesOf(blocks) ==
    IF blocks = <<>> THEN <<>>
    ELSE <<RecordMarker, blocks[1].header>> \o blocks[1].body \o <<DiffMarker>> \o blocks[1].diff
         \o LinesOf(Tail(blocks))

\* yield_run_records is called: git log gives the lines of the blocks.
CallGitLog(blocks, runinfo) ==
    /\ runprov.log.pc = "idle"
    /\ runprov' = [runprov EXCEPT !.log = [NoGitLog EXCEPT !.pc = "loop", !.lines = LinesOf(blocks),
                                                           !.runinfo = runinfo, !.at = 1,
                                                           !.blocks = blocks]]
    /\ UNCHANGED <<lock, store_tvl, store_uuid, store_refs, clock, nwrites, pc, args, mem, hist, q, blobs,
                   connector, custom_dataset>>

\* The record of the log is finalised and yielded, or the generator ends
\* with the exception.
YieldRecord(l) ==
    LET final == FinalizeRecord(l.record[1], l.runinfo)
    IN  IF final.error # "" THEN [l EXCEPT !.pc = "failed", !.error = final.error]
        ELSE [l EXCEPT !.yielded = Append(@, final.record)]

\* One turn of the loop over the lines: at the record marker the record in
\* hand is yielded; the line after it is the header of the next record; a
\* raw diff line gives a diff entry, a body line goes to the body.
AfterLine(l, line) ==
    IF line = RecordMarker
    THEN [(IF l.record # <<>> THEN YieldRecord(l) ELSE l) EXCEPT !.indiff = FALSE, !.record = <<>>]
    ELSE IF l.record = <<>>
    THEN [l EXCEPT !.record = <<[gitshasum |-> line[1], author_name |-> line[2], author_email |-> line[3],
                                 commit_date |-> line[4], body |-> <<>>, diff |-> <<>>]>>]
    ELSE IF line = DiffMarker THEN [l EXCEPT !.indiff = TRUE]
    ELSE IF l.indiff
    THEN IF line[1] # ":" THEN l
         ELSE [l EXCEPT !.record[1].diff =
                    Append(@, [prev_mode |-> line[2], mode |-> line[3], prev_gitshasum |-> line[4],
                               gitshasum |-> line[5], path |-> line[7]])]
    ELSE [l EXCEPT !.record[1].body = Append(@, line)]

ReadLine ==
    /\ runprov.log.pc = "loop"
    /\ runprov.log.at <= Len(runprov.log.lines)
    /\ runprov' = [runprov EXCEPT !.log = [AfterLine(runprov.log, runprov.log.lines[runprov.log.at])
                                            EXCEPT !.at = @ + 1]]
    /\ UNCHANGED <<lock, store_tvl, store_uuid, store_refs, clock, nwrites, pc, args, mem, hist, q, blobs,
                   connector, custom_dataset>>

\* The lines are read: the record in hand is yielded.
EndOfLog ==
    /\ runprov.log.pc = "loop"
    /\ runprov.log.at > Len(runprov.log.lines)
    /\ runprov' = [runprov EXCEPT !.log =
            LET l == IF runprov.log.record # <<>> THEN YieldRecord(runprov.log) ELSE runprov.log
            IN  IF l.pc = "failed" THEN l ELSE [l EXCEPT !.pc = "done", !.record = <<>>]]
    /\ UNCHANGED <<lock, store_tvl, store_uuid, store_refs, clock, nwrites, pc, args, mem, hist, q, blobs,
                   connector, custom_dataset>>

\* ------------------------------------------------------- specifications

Init ==
    /\ lock = NoWriter
    /\ store_tvl = <<>>
    /\ store_uuid = <<>>
    /\ store_refs = {}
    /\ clock = 1
    /\ nwrites = 0
    /\ pc = [w \in Writers |-> "idle"]
    /\ args = [w \in Writers |-> NoArgs]
    /\ mem = [w \in Writers |-> NoMem]
    /\ hist = <<>>
    /\ q = IdleQuery
    /\ blobs = {}
    /\ connector = NewConnector
    /\ custom_dataset = NoCustomDataset
    /\ runprov = NoRunProv

WriteArgs(kind, dataset_tree_path, extractor_name, configuration) ==
    [kind |-> kind, version |-> "v1", uuid |-> IF dataset_tree_path = RootPath THEN "u0" ELSE "u1",
     dataset_tree_path |-> dataset_tree_path,
     file_tree_path |-> IF kind = "file" THEN FilePath ELSE RootPath,
     extractor_name |-> extractor_name, configuration |-> configuration, source |-> "immediate",
     category |-> "IMMEDIATE", extraction_success |-> TRUE]

QueryArgs(dataset_path, local_path, report_on) ==
    [address |-> "tree", dataset_path |-> dataset_path, version |-> <<>>, local_path |-> local_path,
     report_on |-> report_on, report_policy |-> "individual", recursive |-> FALSE]

\* Concurrent writers, failing calls and a query, over a small menu of inputs.
WriteMenu == {WriteArgs(k, p, "E1", "c1") : k \in {"dataset", "file"}, p \in {RootPath, SubPath}}

QueryMenu == {QueryArgs(p, FilePath, r) : p \in {RootPath, SubPath}, r \in {"datasets", "all"}}

WriterStep(w) ==
    \/ LockBackend(w)
    \/ GetTopNodes(w)
    \/ LocateFileMetadata(w)
    \/ LocateDatasetMetadata(w)
    \/ AddMetadataSource(w)
    \/ SaveTreeVersionList(w)
    \/ SaveUUIDSet(w)
    \/ FlushObjectReferences(w)
    \/ UnlockBackend(w)

QueryStep ==
    \/ DumpFromDatasetTree
    \/ ShowDatasetMetadata
    \/ PurgeDatasetMetadata
    \/ ShowFileTreeMetadata
    \/ PurgeFileTree

Next ==
    \/ \E w \in Writers, a \in WriteMenu : BeginWrite(w, a, MaxWrites)
    \/ \E w \in Writers : WriterStep(w)
    \/ \E w \in Writers : Raise(w)
    \/ \E a \in QueryMenu : DumpCall(a)
    \/ QueryStep

Spec == Init /\ [][Next]_vars

\* One writer whose calls all succeed, then queries, over a wider menu of
\* inputs: the sequential runs of the two commands.
SeqWriter == "w1"

SeqWriteMenu ==
    {WriteArgs("dataset", RootPath, e, c) : e \in {"E1", "E2"}, c \in {"c1", "c2"}}
    \cup {WriteArgs("dataset", SubPath, "E1", c) : c \in {"c1", "c2"}}
    \cup {WriteArgs("file", p, "E1", "c1") : p \in {RootPath, SubPath}}

SeqQueryMenu ==
    {QueryArgs(p, f, r) : p \in {RootPath, SubPath, MissingPath}, f \in {FilePath, MissingFilePath},
                          r \in {"datasets", "files", "all"}}

NextSeq ==
    \/ \E a \in SeqWriteMenu : q.pc = "idle" /\ BeginWrite(SeqWriter, a, MaxSeqWrites)
    \/ WriterStep(SeqWriter)
    \/ \E a \in SeqQueryMenu : pc[SeqWriter] = "idle" /\ DumpCall(a)
    \/ QueryStep

SpecSeq == Init /\ [][NextSeq]_vars

\* meta-extract runs of two processes over the output categories, with
\* failing calls.
MaxExtractions == 2

ExtractArgs(kind, dataset_tree_path, version, uuid, extractor_name, configuration, category, success) ==
    [kind |-> kind, version |-> version, uuid |-> uuid,
     dataset_tree_path |-> dataset_tree_path,
     file_tree_path |-> IF kind = "file" THEN FilePath ELSE RootPath,
     extractor_name |-> extractor_name, configuration |-> configuration, source |-> "immediate",
     category |-> category, extraction_success |-> success]

ExtractMenu ==
    {ExtractArgs(k, RootPath, "v1", u, "E1", "c1", c[1], c[2]) :
        k \in {"dataset", "file"}, u \in {"u0", "u9"},
        c \in {<<"IMMEDIATE", TRUE>>, <<"IMMEDIATE", FALSE>>, <<"FILE", TRUE>>, <<"FILE", FALSE>>,
               <<"DIRECTORY", TRUE>>}}

NextExtract ==
    \/ \E w \in Writers, a \in ExtractMenu : CallExtract(w, a, MaxExtractions)
    \/ \E w \in Writers : PerformExtraction(w)
    \/ \E w \in Writers : CopyFileToGit(w)
    \/ \E w \in Writers : WriterStep(w)
    \/ \E w \in Writers : YieldResult(w)
    \/ \E w \in Writers : Raise(w)

SpecExtract == Init /\ [][NextExtract]_vars

\* Queries over the addresses, versions, scopes and policies, against the
\* realms that the writes of DumpWrites leave, each made at most once and in
\* this order.
MaxDumpWrites == 4

DumpWrites ==
    <<ExtractArgs("dataset", RootPath, "v1", "u0", "E1", "c1", "IMMEDIATE", TRUE),
      ExtractArgs("dataset", RootPath, "v2", "u0", "E1", "c1", "IMMEDIATE", TRUE),
      ExtractArgs("file", RootPath, "v1", "u0", "E1", "c1", "IMMEDIATE", TRUE),
      ExtractArgs("dataset", SubPath, "v1", "u1", "E1", "c1", "IMMEDIATE", TRUE),
      ExtractArgs("file", SubPath, "v1", "u1", "E1", "c1", "IMMEDIATE", TRUE),
      ExtractArgs("dataset", RootPath, "v1", "u0", "E2", "c1", "IMMEDIATE", TRUE)>>

LastWritten == IF hist = <<>> THEN 0 ELSE CHOOSE i \in 1..Len(DumpWrites) : DumpWrites[i] = hist[Len(hist)].args

DumpArgs(address, dataset_path, version, local_path, report_on, report_policy, recursive) ==
    [address |-> address, dataset_path |-> dataset_path, version |-> version, local_path |-> local_path,
     report_on |-> report_on, report_policy |-> report_policy, recursive |-> recursive]

DumpMenu ==
    {DumpArgs("tree", p, <<>>, RootPath, "datasets", "individual", r) :
        p \in {RootPath, <<"sub">>, SubPath, MissingPath, PartialPath}, r \in BOOLEAN}
    \cup {DumpArgs("tree", p, <<>>, f, s, "individual", r) :
        p \in {RootPath, SubPath, MissingPath},
        f \in {RootPath, <<"d">>, FilePath, MissingFilePath, PartialFilePath},
        s \in {"files", "all"}, r \in BOOLEAN}
    \cup {DumpArgs("tree", RootPath, <<v>>, RootPath, "datasets", "individual", FALSE) : v \in {"v1", "v2", "v3"}}
    \cup {DumpArgs("tree", RootPath, <<>>, FilePath, "all", "complete", r) : r \in BOOLEAN}
    \cup {DumpArgs("uuid", RootPath, <<>>, FilePath, "all", y, FALSE) : y \in {"individual", "complete"}}

NextDump ==
    \/ \E i \in 1..Len(DumpWrites) :
            q.pc = "idle" /\ i > LastWritten /\ BeginWrite(SeqWriter, DumpWrites[i], MaxDumpWrites)
    \/ WriterStep(SeqWriter)
    \/ \E a \in DumpMenu : pc[SeqWriter] = "idle" /\ DumpCall(a)
    \/ QueryStep
    \/ DumpFromUUIDSet

SpecDump == Init /\ [][NextDump]_vars

\* A process that holds a Connector to the TreeVersionList and loads and
\* purges it, while meta-extract runs write to the realm.
MaxConnectorWrites == 2

ConnectorWriteMenu == {WriteArgs(k, RootPath, "E1", "c1") : k \in {"dataset", "file"}}

NextConnector ==
    \/ \E a \in ConnectorWriteMenu : BeginWrite(SeqWriter, a, MaxConnectorWrites)
    \/ WriterStep(SeqWriter)
    \/ LoadObject
    \/ Purge

SpecConnector == Init /\ [][NextConnector]_vars

\* meta-extract commands of one process over the values of the path
\* argument; a command that failed is followed by the next one.
MaxCommands == 2

PathArguments == {<<>>, <<"">>, <<"--">>, <<"d/f">>, <<"d/g">>, <<"nofile">>}

CommandMenu ==
    {ExtractArgs("", RootPath, "v1", "u0", "E1", "c1", c[1], c[2]) :
        c \in {<<"IMMEDIATE", TRUE>>, <<"IMMEDIATE", FALSE>>, <<"FILE", TRUE>>, <<"FILE", FALSE>>}}

NextCommand ==
    \/ \E path \in PathArguments, a \in CommandMenu : ExtractCall(SeqWriter, path, a, MaxCommands)
    \/ EndFailedCommand(SeqWriter)
    \/ PerformExtraction(SeqWriter)
    \/ CopyFileToGit(SeqWriter)
    \/ WriterStep(SeqWriter)
    \/ YieldResult(SeqWriter)

SpecCommand == Init /\ [][NextCommand]_vars

\* The custom_dataset extractor over the configurations of a dataset.
SourceNames == {"meta.json", "other.json", DefaultSource}

Configurations ==
    {Unset}
    \cup {[kind |-> "single", values |-> n] : n \in SourceNames}
    \cup {[kind |-> "multiple", values |-> v] : v \in UNION {[1..k -> SourceNames] : k \in 0..MaxConfigured}}

NextCustomDataset ==
    \/ \E cfg \in Configurations, e, l \in BOOLEAN : GetMetadata(cfg, e, l)
    \/ GetDsmetaSrcfiles

SpecCustomDataset == Init /\ [][NextCustomDataset]_vars

\* The runprov extractor over the histories of up to MaxRunRecords run
\* records.
Changes == [Range(RunPaths) -> {"none", "100644", Deleted}]

RunRecord(i, change) == [gitshasum |-> RunCommits[i], diff |-> DiffOf(RunCommits[i], change)]

Histories ==
    {[i \in 1..n |-> RunRecord(i, changes[i])] : n \in 0..MaxRunRecords, changes \in [1..MaxRunRecords -> Changes]}

NextRunProv ==
    \/ \E records \in Histories : YieldRunRecords(records)
    \/ ReadRunRecord

SpecRunProv == Init /\ [][NextRunProv]_vars

\* The reader of the log over the logs of up to MaxLogBlocks commits.  The
\* messages: a run record on one line, on two lines, the name of a run info
\* file with a line after it, and a message that quotes the marker indented.
MaxLogBlocks == 2

Logs ==
    LET BodyMenu ==
            {<<<<"[DATALAD RUNCMD] ls">>, <<"">>, <<OpenText>>, <<DictText>>, <<CloseText>>>>,
             <<<<"">>, <<"rerun of ls">>, <<OpenText>>, <<DictHead>>, <<DictTail>>, <<CloseText>>, <<"">>>>,
             <<<<OpenText>>, <<NameText>>, <<CloseText>>, <<"Signed-off-by: a">>>>,
             <<<<"Squashed commit">>, <<IndentedText>>>>}
        RawLine(commit, path, mode) ==
            <<":", "100644", mode, "prev:" \o path, IF mode = Deleted THEN "0000" ELSE commit \o ":" \o path,
              "M", path>>
        DiffMenu(commit) ==
            {<<>>,
             <<<<"">>, RawLine(commit, "f", "100644")>>,
             <<<<"">>, RawLine(commit, "f", Deleted), <<"">>, RawLine(commit, "g", "100644")>>}
        HeaderLine(i) == <<RunCommits[i], "author" \o RunCommits[i], "a@example.org", "date" \o RunCommits[i]>>
    IN  UNION {{[i \in 1..n |-> [header |-> HeaderLine(i), body |-> bodies[i], diff |-> diffs[i]]] :
                    bodies \in [1..n -> BodyMenu],
                    diffs \in {d \in [1..n -> UNION {DiffMenu(RunCommits[j]) : j \in 1..n}] :
                                    \A i \in 1..n : d[i] \in DiffMenu(RunCommits[i])}} :
               n \in 0..MaxLogBlocks}

NextRunLog ==
    \/ \E blocks \in Logs, runinfo \in SUBSET RunInfoFiles : CallGitLog(blocks, runinfo)
    \/ ReadLine
    \/ EndOfLog

SpecRunLog == Init /\ [][NextRunLog]_vars

\* meta-extract runs of two processes whose calls all succeed, over the
\* elements of one dataset version: two extractors, two configurations, two
\* files and a subdataset.
MaxConcurrentWrites == 2

WriteTo(kind, dataset_tree_path, file_tree_path, extractor_name, configuration) ==
    [ExtractArgs(kind, dataset_tree_path, "v1", IF dataset_tree_path = RootPath THEN "u0" ELSE "u1",
                 extractor_name, configuration, "IMMEDIATE", TRUE)
     EXCEPT !.file_tree_path = file_tree_path]

ConcurrentWriteMenu ==
    {WriteTo("dataset", RootPath, RootPath, "E1", "c1"),
     WriteTo("dataset", RootPath, RootPath, "E1", "c2"),
     WriteTo("dataset", RootPath, RootPath, "E2", "c1"),
     WriteTo("file", RootPath, FilePath, "E1", "c1"),
     WriteTo("file", RootPath, FilePath, "E2", "c1"),
     WriteTo("file", RootPath, OtherFilePath, "E1", "c1"),
     WriteTo("dataset", SubPath, RootPath, "E1", "c1")}

NextWrites ==
    \/ \E w \in Writers, a \in ConcurrentWriteMenu : CallExtract(w, a, MaxConcurrentWrites)
    \/ \E w \in Writers : PerformExtraction(w)
    \/ \E w \in Writers : WriterStep(w)
    \/ \E w \in Writers : YieldResult(w)

SpecWrites == Init /\ [][NextWrites]_vars

\* Two meta-extract processes under fair scheduling: a process that can take
\* its next step of the pipeline eventually takes it.  A call that raises is
\* never forced.
MaxFairWrites == 2

NextFair ==
    \/ \E w \in Writers, a \in WriteMenu : BeginWrite(w, a, MaxFairWrites)
    \/ \E w \in Writers : WriterStep(w)
    \/ \E w \in Writers : Raise(w)

SpecFair == Init /\ [][NextFair]_vars /\ \A w \in Writers : WF_vars(WriterStep(w))

\* meta-extract runs of one process with legacy extractors of both families
\* and of neither, and with extractors of the current kind, with failing
\* calls; the consumer of a legacy extraction may stop iterating.
MaxLegacyCommands == 2

MaxLegacyResults == 2

NextLegacy ==
    \/ \E k \in {"dataset", "file"}, family \in {"metalad", "datalad", "other"}, n \in 0..MaxLegacyResults :
            \E status \in [1..n -> {"ok", "error"}] :
                LegacyCall(SeqWriter, ExtractArgs(k, RootPath, "v1", "u0", "L1", "state", "IMMEDIATE", TRUE),
                           family, [i \in 1..n |-> [number |-> i, status |-> status[i]]], MaxLegacyCommands)
    \/ LegacyNext(SeqWriter)
    \/ LegacyYield(SeqWriter)
    \/ ResumeLegacy(SeqWriter)
    \/ StopIterating(SeqWriter)
    \/ \E k \in {"dataset", "file"}, c \in {<<"FILE", TRUE>>, <<"IMMEDIATE", FALSE>>} :
            CallExtract(SeqWriter, ExtractArgs(k, RootPath, "v1", "u0", "E1", "c1", c[1], c[2]), MaxLegacyCommands)
    \/ PerformExtraction(SeqWriter)
    \/ CopyFileToGit(SeqWriter)
    \/ YieldResult(SeqWriter)
    \/ WriterStep(SeqWriter)
    \/ Raise(SeqWriter)

SpecLegacy == Init /\ [][NextLegacy]_vars

\* meta-extract runs of two processes whose calls all succeed, on the root
\* dataset and one of its files, with one extractor under two configurations.
MaxStampWrites == 3

StampMenu ==
    {WriteTo("dataset", RootPath, RootPath, "E1", "c1"),
     WriteTo("dataset", RootPath, RootPath, "E1", "c2"),
     WriteTo("file", RootPath, FilePath, "E1", "c1")}

NextStamps ==
    \/ \E w \in Writers, a \in StampMenu : CallExtract(w, a, MaxStampWrites)
    \/ \E w \in Writers : PerformExtraction(w)
    \/ \E w \in Writers : WriterStep(w)
    \/ \E w \in Writers : YieldResult(w)

SpecStamps == Init /\ [][NextStamps]_vars

\* ---------------------------------------------------------------- claims

CriticalSteps == {"load", "locate", "append", "save_tvl", "save_uuid", "flush", "unlock"}

\* The time stamps of the instances an object reaches.
MetadataStamps(metadata) ==
    UNION {{metadata[i].instances[j].time_stamp : j \in 1..Len(metadata[i].instances)} : i \in 1..Len(metadata)}

TreeOfMetadataStamps(tree) ==
    UNION {IF tree[p].value = <<>> THEN {} ELSE MetadataStamps(tree[p].value[1]) : p \in DOMAIN tree}

RecordStamps(mrr) ==
    (IF mrr.dataset_level_metadata = <<>> THEN {} ELSE MetadataStamps(mrr.dataset_level_metadata[1]))
    \cup (IF mrr.file_tree = <<>> THEN {} ELSE TreeOfMetadataStamps(mrr.file_tree[1]))

DatasetTreeStamps(tree) ==
    UNION {IF tree[p].value = <<>> THEN {} ELSE RecordStamps(tree[p].value[1]) : p \in DOMAIN tree}

TreeVersionListStamps(top) ==
    IF top = <<>> THEN {} ELSE UNION {DatasetTreeStamps(top[1][i].tree) : i \in 1..Len(top[1])}

UUIDSetStamps(top) ==
    IF top = <<>> THEN {}
    ELSE UNION {UNION {RecordStamps(top[1][i].versions[j].mrr) : j \in 1..Len(top[1][i].versions)}
                : i \in 1..Len(top[1])}

ReportedStamps(records) ==
    UNION {{records[i].runs[j].time_stamp : j \in 1..Len(records[i].runs)} : i \in 1..Len(records)}

\* C1: at most one writer is between its lock_backend and its unlock_backend,
\* and that writer is the holder of the lock of the realm.
C1_MutualExclusion ==
    /\ \A w \in Writers : pc[w] \in CriticalSteps => lock = w
    /\ Cardinality({w \in Writers : pc[w] \in CriticalSteps}) <= 1

\* C1 witness: one writer is inside the pipeline while the other waits at
\* lock_backend.
C1_Witness ==
    \E w, v \in Writers : w # v /\ pc[w] \in CriticalSteps /\ pc[v] = "lock" /\ lock = w

\* C2 (as claimed): a writer whose pipeline has ended, by return or by an
\* exception, does not hold the lock of the realm.
C2_LockAlwaysReleased ==
    \A w \in Writers : pc[w] \in {"idle", "failed"} => lock # w

\* C3 (as claimed): after a failed pipeline the persisted TreeVersionList and
\* UUIDSet are what they were when the pipeline took the lock; after a
\* completed one both hold the new run.
C3_WriteAllOrNothing ==
    /\ \A w \in Writers : pc[w] = "failed" =>
            store_tvl = mem[w].pre_tvl /\ store_uuid = mem[w].pre_uuid
    /\ (lock = NoWriter /\ hist # <<>>) =>
            /\ hist[Len(hist)].time_stamp \in TreeVersionListStamps(store_tvl)
            /\ hist[Len(hist)].time_stamp \in UUIDSetStamps(store_uuid)

\* C4: when a pipeline fails after the instance was appended in memory and
\* before any top-level object is saved, the instance is in no persisted object
\* and in no record of a query called after the failure.
C4_FailedAppendLeavesNoTrace ==
    \A w \in Writers : (pc[w] = "failed" /\ mem[w].failed_at = "save_tvl") =>
        /\ mem[w].time_stamp \notin TreeVersionListStamps(store_tvl)
        /\ mem[w].time_stamp \notin UUIDSetStamps(store_uuid)
        /\ w \in q.failed_before => mem[w].time_stamp \notin ReportedStamps(q.records)

\* C4 witness: a query called after such a failure has run to its end and
\* reported the runs recorded before.
C4_Witness ==
    \E w \in Writers :
        /\ pc[w] = "failed" /\ mem[w].failed_at = "save_tvl" /\ mem[w].time_stamp > 0
        /\ w \in q.failed_before /\ q.pc = "done" /\ q.records # <<>>

\* The element a write addresses, and what is persisted for it.
SameElement(a, b) ==
    /\ a.kind = b.kind /\ a.version = b.version /\ a.dataset_tree_path = b.dataset_tree_path
    /\ a.file_tree_path = b.file_tree_path /\ a.extractor_name = b.extractor_name

WritesTo(a) == {i \in 1..Len(hist) : SameElement(hist[i].args, a)}

PersistedTree(version) ==
    IF store_tvl # <<>> /\ HasVersion(store_tvl[1], version)
    THEN GetDatasetTree(store_tvl[1], version) ELSE EmptyTree(DatasetNodeOrder)

PersistedMetadata(a) ==
    IF ~InTree(PersistedTree(a.version), a.dataset_tree_path) THEN <<>>
    ELSE IF a.kind = "file"
         THEN LocatedFileMetadata(PersistedTree(a.version)[a.dataset_tree_path].value[1], a.file_tree_path)
         ELSE LocatedDatasetMetadata(PersistedTree(a.version)[a.dataset_tree_path].value[1])

RunsOf(metadata, extractor_name) ==
    IF \E i \in 1..Len(metadata) : metadata[i].extractor_name = extractor_name
    THEN (CHOOSE e \in Range(metadata) : e.extractor_name = extractor_name).instances
    ELSE <<>>

PersistedRuns(a) == RunsOf(PersistedMetadata(a), a.extractor_name)

Quiet == \A w \in Writers : pc[w] = "idle"

OneRecordPerRun(type, dataset_path, file_path, metadata) ==
    LET total[i \in 0..Len(metadata)] == IF i = 0 THEN <<>> ELSE
            total[i - 1] \o [j \in 1..Len(metadata[i].instances) |->
                ResultRecord(type, dataset_path, file_path,
                    [extractor_name |-> metadata[i].extractor_name,
                     instances |-> <<metadata[i].instances[j]>>])]
    IN  total[Len(metadata)]

DatasetRecordsPerRun(matches) ==
    LET total[i \in 0..Len(matches)] == IF i = 0 THEN <<>> ELSE
            total[i - 1] \o OneRecordPerRun("dataset", matches[i].path, RootPath,
                                LocatedDatasetMetadata(matches[i].node.value[1]))
    IN  total[Len(matches)]

\* C7 (as claimed): a query with dataset scope that ran to its end has emitted
\* one record of type "dataset" per MetadataInstance of the matched nodes.
C7_OneRecordPerInstance ==
    (q.pc = "done" /\ q.args.report_on = "datasets") => q.records = DatasetRecordsPerRun(q.matches)

\* The time stamps of the runs reported for an extractor, in report order.
ReportedRuns(records, extractor_name) ==
    LET total[i \in 0..Len(records)] == IF i = 0 THEN <<>> ELSE
            total[i - 1] \o (IF records[i].extractor_name = extractor_name /\ records[i].type = "dataset"
                            THEN [j \in 1..Len(records[i].runs) |-> records[i].runs[j].time_stamp]
                            ELSE <<>>)
    IN  total[Len(records)]

QueryEnded == q.pc \in {"done", "error", "impossible"}

\* C8 (as claimed): after two successful dataset-level writes of one extractor
\* at one dataset path, a query for that path with dataset scope reports the
\* run of the first write and then the run of the second.
C8_ChronologicalRuns ==
    \A i, k \in 1..Len(hist) :
        (/\ i < k /\ hist[i].args.kind = "dataset" /\ SameElement(hist[i].args, hist[k].args)
         /\ WritesTo(hist[i].args) = {i, k}
         /\ QueryEnded /\ q.args.report_on = "datasets"
         /\ q.args.dataset_path = hist[i].args.dataset_tree_path)
        => ReportedRuns(q.records, hist[i].args.extractor_name) = <<hist[i].time_stamp, hist[k].time_stamp>>

\* C9 (as claimed): a query whose dataset pattern or file pattern matched
\* nothing runs to its end; the miss is a warning.
C9_MissIsOnlyAWarning ==
    (QueryEnded /\ q.pc # "impossible"
        /\ (~Resolves(q.tree, q.args.dataset_path) \/ q.warnings # <<>>))
    => q.pc = "done"

\* Only the node at SubPath carries a MetadataRootRecord.
OnlySubPathRecorded(tree) == \A p \in DOMAIN tree : InTree(tree, p) <=> p = SubPath

\* C10 (as claimed): a query for a missing dataset path against a tree whose
\* only record is at a non-root path ends without error, with no record and
\* the pattern reported as not found.
C10_MissingPathCompletes ==
    (QueryEnded /\ q.pc # "impossible" /\ q.args.dataset_path = MissingPath
        /\ OnlySubPathRecorded(PersistedTree("v1")))
    => (q.pc = "done" /\ q.records = <<>> /\ q.warnings = <<MissingPath>>)

\* C11: a call of the query that finds the TreeVersionList or the UUIDSet of
\* the realm missing yields exactly the record with status "impossible" and
\* ends there, with no address parsed and no error; the loader gives both
\* top-level objects or neither, so a call that finds both is not impossible.
C11_ImpossibleOnce ==
    /\ [](q.pc = "impossible" =>
            /\ q.records = <<ImpossibleRecord>> /\ ~q.parsed /\ q.error = ""
            /\ q.tvl = <<>> /\ q.matches = <<>> /\ q.loads = {})
    /\ [][(q' # q /\ q.pc \in {"idle", "done", "error", "impossible"}) =>
            IF store_tvl = <<>> \/ store_uuid = <<>>
            THEN q'.pc = "impossible" /\ q'.records = <<ImpossibleRecord>>
            ELSE q'.pc # "impossible" /\ q'.tvl = store_tvl /\ q'.records = <<>>]_vars

\* C11 witness: the query ended as impossible on a realm whose
\* TreeVersionList is persisted and whose UUIDSet is not.
C11_Witness == q.pc = "impossible" /\ store_tvl # <<>> /\ store_uuid = <<>>

Searched == q.pc \in {"show_dataset", "purge_dataset", "show_files", "purge_files", "done"}

\* The version recorded last in a TreeVersionList.
MostRecentVersion(tvl) == tvl[Len(tvl)].version

\* C13 (as claimed): the DatasetTree searched is the one recorded under the
\* version of the address, or under the most recently recorded version when
\* the address carries none.
C13_VersionResolution ==
    Searched =>
        /\ q.version = <<IF q.args.version = <<>> THEN MostRecentVersion(q.tvl[1]) ELSE q.args.version[1]>>
        /\ q.tree = GetDatasetTree(q.tvl[1], q.version[1])

\* C14: a query with a UUID address that found the top-level objects ends
\* with NotImplementedError and no record, and no step of it changes the
\* persisted objects or the lock.
C14_UUIDAddressNotImplemented ==
    /\ [](q.args.address = "uuid" =>
            /\ q.pc \in {"dump_uuid", "error", "impossible"}
            /\ q.pc = "error" => q.error = "NotImplementedError"
            /\ q.pc # "impossible" => q.records = <<>>)
    /\ [][(q' # q /\ q'.args.address = "uuid")
            => UNCHANGED <<lock, store_tvl, store_uuid, store_refs, blobs, connector, custom_dataset, runprov>>]_vars

\* C14 witness: the query with a UUID address has ended with the error on a
\* realm that holds records.
C14_Witness ==
    /\ q.args.address = "uuid" /\ q.pc = "error" /\ q.error = "NotImplementedError"
    /\ store_tvl # <<>> /\ store_uuid # <<>> /\ lock = NoWriter

\* What the individual policy yields for a tree address over a loaded
\* TreeVersionList, up to the end of the query or the statement that raises:
\* per match the dataset records, then the file records.
RecordsOfMatch(a, match) ==
    LET mrr == match.node.value
        dataset_part ==
            IF a.report_on = "files" THEN [records |-> <<>>, raised |-> FALSE]
            ELSE IF mrr = <<>> \/ mrr[1].dataset_level_metadata = <<>> THEN [records |-> <<>>, raised |-> TRUE]
            ELSE [records |-> MetadataRecords("dataset", match.path, RootPath, mrr[1].dataset_level_metadata[1]),
                  raised |-> FALSE]
    IN  IF dataset_part.raised \/ a.report_on = "datasets" THEN dataset_part
        ELSE IF mrr = <<>> \/ mrr[1].file_tree = <<>> THEN [dataset_part EXCEPT !.raised = TRUE]
        ELSE [records |-> dataset_part.records \o
                    FileRecords(match.path,
                        GetMatchingPaths(mrr[1].file_tree[1], FileNodeOrder, a.local_path, a.recursive).matches),
              raised |-> FALSE]

RecordsOfMatches(a, matches) ==
    LET total[i \in 0..Len(matches)] ==
            IF i = 0 THEN [records |-> <<>>, raised |-> FALSE]
            ELSE IF total[i - 1].raised THEN total[i - 1]
            ELSE [records |-> total[i - 1].records \o RecordsOfMatch(a, matches[i]).records,
                  raised |-> RecordsOfMatch(a, matches[i]).raised]
    IN  total[Len(matches)].records

IndividualRecords(top, a) ==
    IF top = <<>> THEN <<ImpossibleRecord>>
    ELSE IF a.address = "uuid" \/ ~HasVersion(top[1], RequestedVersion(top[1], a)) THEN <<>>
    ELSE LET tree == GetDatasetTree(top[1], RequestedVersion(top[1], a))
         IN  IF tree[RootPath].value = <<>> THEN <<>>
             ELSE RecordsOfMatches(a, GetMatchingPaths(tree, DatasetNodeOrder, a.dataset_path, a.recursive).matches)

\* C15: a query with the complete policy yields only records the individual
\* policy yields for the same arguments, in the same order, and when it has
\* ended it has either raised before any record or yielded all of them.
C15_CompletePolicy ==
    q.args.report_policy = "complete" =>
        /\ IsPrefix(q.records, IndividualRecords(q.tvl, q.args))
        /\ QueryEnded =>
            \/ q.pc = "error" /\ q.error \in {"AssertionError", "NotImplementedError"} /\ q.records = <<>>
            \/ q.records = IndividualRecords(q.tvl, q.args)

\* C15 witness: a query with the complete policy and a tree address has been
\* refused by the assert although the individual policy yields records here.
C15_Witness ==
    /\ q.args.report_policy = "complete" /\ q.args.address = "tree"
    /\ q.pc = "error" /\ q.error = "AssertionError"
    /\ Len(IndividualRecords(q.tvl, q.args)) >= 2

\* C16: a writer whose extractor has output category DIRECTORY gets no further
\* than the dispatch, where it fails with NotImplementedError; it has not
\* called extract, taken the lock, written a blob or yielded a result, and
\* none of its steps changes what is persisted.
C16_DirectoryNotImplemented ==
    /\ [](\A w \in Writers : args[w].category = "DIRECTORY" =>
            /\ pc[w] \in {"perform", "failed"}
            /\ pc[w] = "failed" => mem[w].failed_at = "perform" /\ mem[w].error = "NotImplementedError"
            /\ ~mem[w].extract_called /\ mem[w].yielded = 0 /\ mem[w].blob_writes = 0
            /\ lock # w)
    /\ [][\A w \in Writers : (args'[w].category = "DIRECTORY" /\ pc'[w] # pc[w])
            => UNCHANGED <<lock, store_tvl, store_uuid, store_refs, blobs, connector, custom_dataset, runprov>>]_vars

\* C16 witness: an extraction with category DIRECTORY has failed on a realm
\* that another extraction has written to.
C16_Witness ==
    \E w \in Writers :
        /\ args[w].category = "DIRECTORY" /\ pc[w] = "failed"
        /\ store_tvl # <<>> /\ store_uuid # <<>>

\* The match a result record belongs to, and the records that are results.
MatchOf(record) == CHOOSE k \in 1..Len(q.matches) : q.matches[k].path = record.dataset_path

Results == {i \in 1..Len(q.records) : q.records[i].status = "ok"}

\* C17: with scope datasets every record has type "dataset" and no FileTree is
\* loaded; with scope files every record has type "file" and no dataset-level
\* Metadata is loaded; in every scope the records of a match come before those
\* of the next match, and for one match the dataset records before the file
\* records.
C17_ReportScope ==
    /\ q.args.report_on = "datasets" =>
            /\ \A i \in Results : q.records[i].type = "dataset"
            /\ \A c \in q.loads : c.object # "file_tree"
    /\ q.args.report_on = "files" =>
            /\ \A i \in Results : q.records[i].type = "file"
            /\ \A c \in q.loads : c.object # "dataset_level_metadata"
    /\ \A i, j \in Results : i < j =>
            /\ MatchOf(q.records[i]) <= MatchOf(q.records[j])
            /\ MatchOf(q.records[i]) = MatchOf(q.records[j])
                    => ~(q.records[i].type = "file" /\ q.records[j].type = "dataset")

\* C17 witness: a query with scope all has ended after two matches, with
\* dataset records and file records of both.
C17_Witness ==
    /\ q.pc = "done" /\ q.args.report_on = "all" /\ Len(q.matches) = 2
    /\ \A k \in 1..2, t \in {"dataset", "file"} :
            \E i \in Results : MatchOf(q.records[i]) = k /\ q.records[i].type = t

\* The file search of match k: the FileTree of its record, searched with the
\* file pattern and the recursive flag of the call.
FileSearch(k) ==
    GetMatchingPaths(q.matches[k].node.value[1].file_tree[1], FileNodeOrder, q.args.local_path, q.args.recursive)

FileRecordsAt(k, path) ==
    {i \in Results : /\ q.records[i].type = "file" /\ q.records[i].file_path = path
                     /\ q.records[i].dataset_path = q.matches[k].path}

Versions == {"v1", "v2"}

MetadataLocations(metadata) ==
    UNION {{metadata[i].instances[j].metadata_location : j \in 1..Len(metadata[i].instances)} : i \in 1..Len(metadata)}

RecordLocations(mrr) ==
    (IF mrr.dataset_level_metadata = <<>> THEN {} ELSE MetadataLocations(mrr.dataset_level_metadata[1]))
    \cup (IF mrr.file_tree = <<>> THEN {}
          ELSE UNION {IF mrr.file_tree[1][p].value = <<>> THEN {} ELSE MetadataLocations(mrr.file_tree[1][p].value[1])
                      : p \in DOMAIN mrr.file_tree[1]})

ReferencedLocations ==
    (IF store_tvl = <<>> THEN {}
     ELSE UNION {UNION {IF store_tvl[1][i].tree[p].value = <<>> THEN {} ELSE RecordLocations(store_tvl[1][i].tree[p].value[1])
                        : p \in DOMAIN store_tvl[1][i].tree} : i \in 1..Len(store_tvl[1])})
    \cup (IF store_uuid = <<>> THEN {}
          ELSE UNION {UNION {RecordLocations(store_uuid[1][i].versions[j].mrr) : j \in 1..Len(store_uuid[1][i].versions)}
                      : i \in 1..Len(store_uuid[1])})

\* The instance a completed write left, when it is still persisted.
InstancesOfWrite(h) ==
    {e \in Range(PersistedRuns(h.args)) : e.time_stamp = h.time_stamp}

\* C20 (as claimed): an extraction with FILE output that succeeded has written
\* its blob once when it enters the pipeline, before it takes the lock, and
\* its instance stores the reference of the blob; an extraction that did not
\* succeed has written none; after a failure of the pipeline the blob is not
\* referenced and the TreeVersionList and the UUIDSet are as they were.
C20_BlobWrittenOnce ==
    /\ \A w \in Writers : (args[w].category = "FILE" /\ pc[w] \in {"lock"} \cup CriticalSteps \cup {"yield"}) =>
            mem[w].blob_writes = 1 /\ mem[w].blob \in blobs
    /\ \A w \in Writers : pc[w] \in {"perform", "copy"} => lock # w
    /\ \A w \in Writers : (args[w].category # "FILE" \/ ~args[w].extraction_success) => mem[w].blob_writes = 0
    /\ \A i \in 1..Len(hist) : hist[i].args.category = "FILE" =>
            \A e \in InstancesOfWrite(hist[i]) : e.metadata_location \in blobs
    /\ \A w \in Writers : (pc[w] = "failed" /\ mem[w].blob # "") =>
            /\ mem[w].blob \in blobs /\ mem[w].blob \notin ReferencedLocations
            /\ store_tvl = mem[w].pre_tvl /\ store_uuid = mem[w].pre_uuid

\* The query is between its call and its end.
QueryRunning == q.pc \in {"dump", "show_dataset", "purge_dataset", "show_files", "purge_files"}

\* C21: whoever holds the lock of the realm, a query that is not running can
\* be called and a running query can take its next step, and no step of the
\* query changes the lock.
C21_QueryTakesNoLock ==
    /\ [](~QueryRunning => ENABLED (\E a \in QueryMenu : DumpCall(a)))
    /\ [](QueryRunning => ENABLED QueryStep)
    /\ [][q' # q => lock' = lock]_vars

\* C21 witness: a query has run to its end and reported a run that a writer,
\* still holding the lock, has saved to the TreeVersionList and not yet to the
\* UUIDSet.
C21_Witness ==
    \E w \in Writers :
        /\ lock = w /\ pc[w] = "save_uuid"
        /\ mem[w].time_stamp \in TreeVersionListStamps(store_tvl)
        /\ mem[w].time_stamp \notin UUIDSetStamps(store_uuid)
        /\ q.pc = "done" /\ mem[w].time_stamp \in ReportedStamps(q.records)

\* The calls of the Connector that are loads which returned an object.
Loads == {i \in 1..Len(connector.calls) : connector.calls[i].op = "load" /\ connector.calls[i].error = ""}

NoPurgeBetween(i, k) == \A j \in i..k : connector.calls[j].op # "purge"

\* C22: two loads of the Connector with no purge between them return the same
\* object, and the second reads nothing from the backing store.
C22_IdempotentLoad ==
    \A i, k \in Loads : (i < k /\ NoPurgeBetween(i, k)) =>
        /\ connector.calls[k].object = connector.calls[i].object
        /\ connector.calls[k].fetches = connector.calls[i].fetches

\* C22 witness: the second of two such loads was made after a write to the
\* realm had changed the persisted TreeVersionList.
C22_Witness ==
    \E i, k \in Loads :
        /\ i < k /\ NoPurgeBetween(i, k)
        /\ connector.calls[k].store # connector.calls[i].store

\* C23: a purge leaves the Connector unloaded; the load after a purge reads
\* the backing store once more and returns what is persisted then; the purge
\* of an unloaded Connector changes nothing of it; and no purge changes what
\* is persisted.
C23_PurgeCorrectness ==
    /\ [](\A i \in 1..Len(connector.calls) : connector.calls[i].op = "purge" =>
            /\ ~connector.calls[i].loaded /\ connector.calls[i].object = <<>>
            /\ (i < Len(connector.calls) /\ connector.calls[i + 1].op = "load") =>
                    /\ connector.calls[i + 1].fetches = connector.calls[i].fetches + 1
                    /\ connector.calls[i + 1].store # <<>> =>
                            /\ connector.calls[i + 1].object # <<>>
                            /\ connector.calls[i + 1].object[1].value = connector.calls[i + 1].store[1])
    /\ [][(Len(connector'.calls) > Len(connector.calls) /\ connector'.calls[Len(connector'.calls)].op = "purge") =>
            /\ store_tvl' = store_tvl /\ store_uuid' = store_uuid /\ store_refs' = store_refs /\ blobs' = blobs
            /\ ~connector.loaded => /\ connector'.loaded = connector.loaded
                                    /\ connector'.object = connector.object
                                    /\ connector'.fetches = connector.fetches]_vars

\* C23 witness: the Connector was loaded, a write to the realm ran to its end,
\* the Connector was purged and loaded again and returned the written state;
\* an unloaded Connector was purged as well.
C23_Witness ==
    /\ \E i, k \in Loads :
        /\ i < k /\ k > 1 /\ connector.calls[k - 1].op = "purge"
        /\ connector.calls[k].object[1].value # connector.calls[i].object[1].value
        /\ hist # <<>> /\ hist[Len(hist)].time_stamp \in TreeVersionListStamps(<<connector.calls[k].object[1].value>>)
        /\ hist[Len(hist)].time_stamp \notin TreeVersionListStamps(<<connector.calls[i].object[1].value>>)
    /\ \E j \in 2..Len(connector.calls) :
        connector.calls[j].op = "purge" /\ ~connector.calls[j - 1].loaded

\* Every segment of the pattern names a child: all its prefixes are nodes.
PrefixesExist(tree, pattern) ==
    \A k \in 0..Len(pattern) :
        SubSeq(pattern, 1, k) \in DOMAIN tree /\ tree[SubSeq(pattern, 1, k)].exists

\* The matches whose FileTree the query has searched without resolving the
\* file pattern.
FileMisses ==
    {k \in 1..Len(q.matches) :
        /\ q.args.report_on \in {"files", "all"}
        /\ k < q.idx \/ (k = q.idx /\ q.pc = "purge_files")
        /\ ~PrefixesExist(q.matches[k].node.value[1].file_tree[1], q.args.local_path)}

\* C24: a dataset pattern that does not resolve is the one warning of the
\* query, which has no match and no record; a dataset pattern that resolves is
\* not warned about: the warnings are then the file pattern, once per match
\* whose FileTree does not resolve it, and such a match has no file record.
C24_MissesAreReported ==
    Searched =>
        /\ ~PrefixesExist(q.tree, q.args.dataset_path) =>
                q.warnings = <<q.args.dataset_path>> /\ q.matches = <<>> /\ q.records = <<>>
        /\ PrefixesExist(q.tree, q.args.dataset_path) =>
                /\ Len(q.warnings) = Cardinality(FileMisses)
                /\ \A i \in 1..Len(q.warnings) : q.warnings[i] = q.args.local_path
                /\ \A k \in FileMisses : \A i \in 1..Len(q.records) :
                        ~(q.records[i].type = "file" /\ q.records[i].dataset_path = q.matches[k].path)

\* C24 witness: the dataset pattern failed at its second segment in a tree
\* that holds records at the root and below the first segment.
C24_Witness ==
    /\ q.pc = "done" /\ q.args.dataset_path = PartialPath
    /\ InTree(q.tree, RootPath) /\ q.tree[<<"sub">>].exists /\ InTree(q.tree, SubPath)
    /\ q.warnings = <<PartialPath>> /\ q.records = <<>>

\* The path argument is absent, empty or "--".
NoFileGiven(path) == path = <<>> \/ path[1] \in {"", "--"}

\* The record persisted at the node a writer addresses.
PersistedRecord(a) == PersistedTree(a.version)[a.dataset_tree_path].value[1]

\* C25: a command enters exactly one extraction mode: dataset-level when the
\* path argument is absent, empty or "--", file-level otherwise; and the
\* instance it has written is in the dataset-level Metadata of the node in the
\* first case, in the Metadata of the file path in the FileTree in the second,
\* and not in the other.
C25_ModeByPath ==
    \A w \in Writers : mem[w].modes # {} =>
        /\ mem[w].modes = IF NoFileGiven(mem[w].path) THEN {"dataset"} ELSE {"file"}
        /\ (pc[w] = "yield" /\ mem[w].time_stamp > 0) =>
            IF NoFileGiven(mem[w].path)
            THEN /\ mem[w].time_stamp \in MetadataStamps(LocatedDatasetMetadata(PersistedRecord(args[w])))
                 /\ mem[w].time_stamp \notin TreeOfMetadataStamps(LocatedFileTree(PersistedRecord(args[w])))
            ELSE /\ mem[w].time_stamp \in
                        MetadataStamps(LocatedFileMetadata(PersistedRecord(args[w]), MetadataPathOf(mem[w].path[1])))
                 /\ mem[w].time_stamp \notin MetadataStamps(LocatedDatasetMetadata(PersistedRecord(args[w])))
                 /\ \A f \in Range(FileNodeOrder) \ {MetadataPathOf(mem[w].path[1])} :
                        mem[w].time_stamp \notin MetadataStamps(LocatedFileMetadata(PersistedRecord(args[w]), f))

\* C25 witness: after a command with a file path has written, a command with
\* the path "--" has written to the dataset-level Metadata.
C25_Witness ==
    \E w \in Writers :
        /\ pc[w] = "yield" /\ mem[w].path = <<"--">> /\ mem[w].time_stamp > 0
        /\ \E i \in 1..Len(hist) : hist[i].args.kind = "file"

ChangesOf(records, p) == {i \in 1..Len(records) : \E d \in Range(records[i].diff) : d.path = p}

MostRecentChange(records, p) == CHOOSE i \in ChangesOf(records, p) : \A j \in ChangesOf(records, p) : i <= j

ModeAfter(rec, p) == (CHOOSE d \in Range(rec.diff) : d.path = p).mode

\* C27 (as claimed): when all run records are read, a path that no record
\* changed or whose most recent change is a deletion has no activity in the
\* lookup table, and every other path has the most recent record that
\* changed it.
C27_MostRecentChange ==
    runprov.pc = "done" => \A p \in Range(RunPaths) :
        IF ChangesOf(runprov.records, p) = {}
        THEN runprov.path_db[p] = <<>>
        ELSE LET rec == runprov.records[MostRecentChange(runprov.records, p)]
             IN  IF ModeAfter(rec, p) = Deleted
                 THEN runprov.path_db[p] = <<>>
                 ELSE runprov.path_db[p] # <<>> /\ runprov.path_db[p][1].activity = rec.gitshasum

\* The statements of the write pipeline in the order of the source.
PipelineOrder == <<"lock", "load", "locate", "append", "save_tvl", "save_uuid", "flush", "unlock">>

Follows(from, to) == \E i \in 1..(Len(PipelineOrder) - 1) : PipelineOrder[i] = from /\ PipelineOrder[i + 1] = to

\* The tree objects a writer holds in memory.
TreeObjects(m) == <<m.tvl, m.uuid_set, m.mrr, m.metadata>>

\* C28: a writer passes the statements of the pipeline in the order lock,
\* load, locate, append, save TreeVersionList, save UUIDSet, flush, unlock, or
\* leaves it by an exception; the lock is taken by the first and released by
\* the last; the tree objects in memory change only in load, locate and
\* append, the persisted TreeVersionList only in its save, the persisted
\* UUIDSet only in its save, the flushed references only in the flush, and
\* all of these only while the writer holds the lock.
C28_ProtocolOrder ==
    [][/\ store_tvl' # store_tvl => \E w \in Writers : pc[w] = "save_tvl" /\ pc'[w] = "save_uuid"
       /\ store_uuid' # store_uuid => \E w \in Writers : pc[w] = "save_uuid" /\ pc'[w] = "flush"
       /\ store_refs' # store_refs => \E w \in Writers : pc[w] = "flush" /\ pc'[w] = "unlock"
       /\ \A w \in Writers :
            /\ (pc'[w] # pc[w] /\ pc[w] \in Range(PipelineOrder)) =>
                    \/ Follows(pc[w], pc'[w])
                    \/ pc'[w] = "failed"
                    \/ pc[w] = "unlock" /\ pc'[w] \in {"idle", "yield"}
            /\ (pc'[w] # pc[w] /\ pc'[w] \in Range(PipelineOrder)) =>
                    Follows(pc[w], pc'[w]) \/ pc'[w] = "lock"
            /\ (lock' = w /\ lock # w) => pc[w] = "lock" /\ pc'[w] = "load" /\ lock = NoWriter
            /\ (lock = w /\ lock' # w) => pc[w] = "unlock" /\ pc'[w] # "unlock" /\ lock' = NoWriter
            /\ (TreeObjects(mem'[w]) # TreeObjects(mem[w]) /\ pc[w] # "idle") =>
                    lock = w /\ lock' = w /\ pc[w] \in {"load", "locate", "append"}
            /\ (pc'[w] # pc[w] /\ pc[w] \in {"save_tvl", "save_uuid", "flush"} /\ pc'[w] # "failed") =>
                    lock = w /\ lock' = w]_vars

\* C28 witness: a writer has passed every statement up to the unlock, with its
\* instance saved in both top-level objects and flushed, while the other
\* writer waits for the lock.
C28_Witness ==
    \E w, v \in Writers :
        /\ w # v /\ pc[w] = "unlock" /\ lock = w /\ pc[v] = "lock"
        /\ mem[w].time_stamp \in TreeVersionListStamps(store_tvl)
        /\ mem[w].time_stamp \in UUIDSetStamps(store_uuid)
        /\ mem[w].time_stamp \in store_refs

\* The record persisted at a node (none: <<>>), the Metadata of a file path
\* and the dataset-level Metadata of a record (none: <<>>), and the instances
\* of a Metadata object with their extractors.
StoredRecord(top, a) ==
    IF top # <<>> /\ HasVersion(top[1], a.version)
       /\ InTree(GetDatasetTree(top[1], a.version), a.dataset_tree_path)
    THEN GetDatasetTree(top[1], a.version)[a.dataset_tree_path].value
    ELSE <<>>

FileMetadataOf(mrr, f) == IF mrr.file_tree = <<>> THEN <<>> ELSE mrr.file_tree[1][f].value

InstancesOf(metadata) ==
    IF metadata = <<>> THEN {}
    ELSE UNION {{[extractor_name |-> metadata[1][i].extractor_name, instance |-> metadata[1][i].instances[j]]
                    : j \in 1..Len(metadata[1][i].instances)} : i \in 1..Len(metadata[1])}

\* The instances of an existing Metadata object that a write of a has to keep.
KeptInstances(metadata, a) ==
    {e \in InstancesOf(metadata) :
        ~(e.extractor_name = a.extractor_name /\ e.instance.configuration = a.configuration)}

\* C29: when a writer saves the TreeVersionList, the record at the node it
\* wrote to, if there was one, keeps for a file-level write its dataset-level
\* Metadata and the Metadata of every other file path, and for a dataset-level
\* write its FileTree; the Metadata written to keeps the instances it had,
\* but for the one of the same extractor and configuration.
C29_FrameOfWrite ==
    [][\A w \in Writers :
        (pc[w] = "save_tvl" /\ pc'[w] = "save_uuid" /\ StoredRecord(store_tvl, args[w]) # <<>>) =>
            LET old == StoredRecord(store_tvl, args[w])[1]
                new == StoredRecord(store_tvl', args[w])[1]
            IN  /\ StoredRecord(store_tvl', args[w]) # <<>>
                /\ IF args[w].kind = "file"
                   THEN /\ new.dataset_level_metadata = old.dataset_level_metadata
                        /\ \A f \in Range(FileNodeOrder) \ {args[w].file_tree_path} :
                                FileMetadataOf(new, f) = FileMetadataOf(old, f)
                        /\ KeptInstances(FileMetadataOf(old, args[w].file_tree_path), args[w])
                                \subseteq InstancesOf(FileMetadataOf(new, args[w].file_tree_path))
                   ELSE /\ new.file_tree = old.file_tree
                        /\ KeptInstances(old.dataset_level_metadata, args[w])
                                \subseteq InstancesOf(new.dataset_level_metadata)]_vars

\* C29 witness: a file-level write to one file path has run to its end on a
\* record that held the Metadata of another file path, which it still holds
\* with the instance of the earlier write.
C29_Witness ==
    /\ Quiet /\ Len(hist) = 2
    /\ hist[1].args.kind = "file" /\ hist[2].args.kind = "file"
    /\ hist[1].args.file_tree_path # hist[2].args.file_tree_path
    /\ StoredRecord(store_tvl, hist[2].args) # <<>>
    /\ LET mrr == StoredRecord(store_tvl, hist[2].args)[1]
       IN  /\ hist[1].time_stamp \in MetadataStamps(LocatedFileMetadata(mrr, hist[1].args.file_tree_path))
           /\ hist[2].time_stamp \in MetadataStamps(LocatedFileMetadata(mrr, hist[2].args.file_tree_path))

\* No writer is inside the pipeline.
NoPipelineRunning == \A w \in Writers : pc[w] \notin CriticalSteps

Overwritten(i) ==
    \E k \in (i + 1)..Len(hist) :
        SameElement(hist[k].args, hist[i].args) /\ hist[k].args.configuration = hist[i].args.configuration

C31_Progress ==
    /\ \A w \in Writers : (pc[w] = "lock") ~> (lock = w)
    /\ \A w \in Writers : (lock = w) ~> (lock # w)

\* C31 (as claimed): under fair scheduling a writer that waits at lock_backend
\* eventually holds the lock, a writer that holds the lock eventually releases
\* it, whether the holders before it returned or raised, and a writer whose
\* pipeline has ended never holds the lock.
C31_WriterProgress ==
    /\ C31_Progress
    /\ [](\A w \in Writers : pc[w] \in {"idle", "failed"} => lock # w)

\* C31, the part that needs no release by another writer: a writer that waits
\* at lock_backend while no writer that raised holds the lock eventually
\* holds the lock or finds it held by a writer that raised.
C31_ProgressAfterReturn ==
    \A w \in Writers : (pc[w] = "lock") ~> (lock = w \/ \E v \in Writers : pc[v] = "failed" /\ lock = v)

\* A writer is inside add_*_metadata_source, from the call of lock_backend on.
InPipeline(w) == pc[w] \in {"lock"} \cup CriticalSteps

\* This step hands a result record of w to the consumer.
ResultHandedOver(w) ==
    \/ mem'[w].yielded > mem[w].yielded
    \/ Len(mem'[w].legacy.emitted) > Len(mem[w].legacy.emitted)

\* C32: a writer at a yield of an extraction generator, suspended there, or
\* closed there by a consumer that stopped iterating, does not hold the lock
\* of the realm; the step that hands a result to the consumer neither starts
\* nor ends with the lock held by that writer.
C32_NoLockAcrossYield ==
    /\ [](\A w \in Writers : pc[w] \in {"yield", "legacy_yield", "suspended"} => lock # w)
    /\ [](\A w \in Writers : (pc[w] = "idle" /\ mem[w].legacy.closed) => lock # w)
    /\ [][\A w \in Writers : ResultHandedOver(w) => (lock # w /\ lock' # w)]_vars

\* C32 witness: a legacy generator is suspended at the yield of a result with
\* status "ok", whose write has run to its end.
C32_Witness ==
    \E w \in Writers :
        /\ pc[w] = "suspended" /\ lock = NoWriter
        /\ mem[w].legacy.results[mem[w].legacy.pos].status = "ok"
        /\ Len(hist) > mem[w].legacy.hist_before

\* The last write that ran to its end, and whether a query addresses the
\* element it wrote: the dataset pattern is its dataset tree path, the file
\* pattern its file tree path, no version is given, and the scope covers the
\* level of the write.
LastWrite == hist[Len(hist)]

AsksFor(query, a) ==
    /\ query.address = "tree" /\ query.version = <<>> /\ query.report_policy = "individual"
    /\ query.dataset_path = a.dataset_tree_path
    /\ IF a.kind = "file"
       THEN query.local_path = a.file_tree_path /\ query.report_on \in {"files", "all"}
       ELSE query.report_on \in {"datasets", "all"}

\* The records of a query hold the instance of a write.
Reports(records, h) ==
    \E i \in 1..Len(records) :
        /\ records[i].status = "ok" /\ records[i].type = h.args.kind
        /\ records[i].dataset_path = h.args.dataset_tree_path
        /\ records[i].file_path = h.args.file_tree_path
        /\ records[i].extractor_name = h.args.extractor_name
        /\ \E j \in 1..Len(records[i].runs) : records[i].runs[j].time_stamp = h.time_stamp

\* C33 (as claimed): a query that was called after a write ran to its end,
\* with no version and the patterns of that write, has yielded at its end a
\* record of the written extractor that holds the written instance, and has
\* not ended as impossible.
C33_ReadYourWrites ==
    (QueryEnded /\ hist # <<>> /\ AsksFor(q.args, LastWrite.args))
    => (q.pc # "impossible" /\ Reports(q.records, LastWrite))

\* C33 without the failures of the query on a node that carries no record
\* or no Metadata of the level asked for: such a query never ends as
\* impossible, and when it ends without an error it holds the instance.
C33_ReadYourWritesUnlessError ==
    (QueryEnded /\ hist # <<>> /\ AsksFor(q.args, LastWrite.args))
    => (q.pc # "impossible" /\ (q.pc = "done" => Reports(q.records, LastWrite)))

\* This step of w is the statement after extract of an extraction that
\* reported extraction_success = false.
UnsuccessfulExtraction(w) ==
    pc[w] = "perform" /\ ~args[w].extraction_success /\ args[w].category # "DIRECTORY" /\ pc'[w] # pc[w]

\* C34: the step that follows an unsuccessful extract yields the result
\* once, with action "meta_extract", and ends the generator; it leaves the
\* lock, the object store and the persisted top-level objects as they were;
\* and an extraction that ended that way has taken no lock, written no blob
\* and recorded no write.
C34_UnsuccessfulExtractionWritesNothing ==
    /\ [][\A w \in Writers : UnsuccessfulExtraction(w) =>
            /\ pc'[w] = "idle"
            /\ mem'[w].yielded = mem[w].yielded + 1 /\ mem'[w].action = "meta_extract"
            /\ lock' = lock /\ blobs' = blobs /\ hist' = hist
            /\ store_tvl' = store_tvl /\ store_uuid' = store_uuid /\ store_refs' = store_refs]_vars
    /\ [](\A w \in Writers : (mem[w].extract_called /\ ~args[w].extraction_success) =>
            /\ pc[w] = "idle" /\ lock # w
            /\ mem[w].yielded = 1 /\ mem[w].action = "meta_extract"
            /\ mem[w].blob_writes = 0 /\ mem[w].blob = "" /\ mem[w].time_stamp = 0
            /\ \A i \in 1..Len(hist) : hist[i].time_stamp # 0)

\* C34 witness: an unsuccessful extraction with the FILE category has ended
\* on a realm that holds the write of an extraction before it.
C34_Witness ==
    \E w \in Writers :
        /\ mem[w].extract_called /\ ~args[w].extraction_success /\ args[w].category = "FILE"
        /\ pc[w] = "idle" /\ mem[w].yielded = 1
        /\ hist # <<>> /\ store_tvl # <<>>

\* C35 (as claimed): every record the query has yielded is, as the consumer
\* holds it, what it was when it was yielded: it names the extractor and the
\* runs it was yielded for, whatever was yielded after it.
C35_EmittedRecordStable ==
    /\ Len(q.held) = Len(q.records)
    /\ \A i \in 1..Len(q.records) : q.held[i] = q.records[i]

\* C35 for the records that no later record of the same element follows: the
\* last record yielded for a dataset or a file stays what it was.
C35_LastRecordOfElementStable ==
    /\ Len(q.held) = Len(q.records)
    /\ \A i \in 1..Len(q.records) :
        (\A j \in (i + 1)..Len(q.records) :
            ~(/\ q.records[j].type = q.records[i].type
              /\ q.records[j].dataset_path = q.records[i].dataset_path
              /\ q.records[j].file_path = q.records[i].file_path))
        => q.held[i] = q.records[i]

\* This step of w is add_metadata_source: the call of time.time() and of
\* add_extractor_run.
TakesTimeStamp(w) == pc[w] = "append" /\ pc'[w] = "save_tvl"

\* The time stamp is taken while the writer holds the lock, and it is the
\* time stamp of the instance the step stores for the writer.
StampedUnderLock ==
    \A w \in Writers : TakesTimeStamp(w) =>
        /\ lock = w /\ lock' = w
        /\ mem'[w].time_stamp = clock /\ clock' >= clock
        /\ \E j \in 1..Len(RunsOf(mem'[w].metadata, args[w].extractor_name)) :
                /\ RunsOf(mem'[w].metadata, args[w].extractor_name)[j].time_stamp = clock
                /\ RunsOf(mem'[w].metadata, args[w].extractor_name)[j].author = w

ReplacedOneBefore(a, instance, than) ==
    \E k \in 1..Len(hist) :
        /\ SameElement(hist[k].args, a)
        /\ hist[k].args.configuration = instance.configuration
        /\ hist[k].time_stamp < than

LegacyWritten(w) ==
    Cardinality({i \in (mem[w].legacy.hist_before + 1)..Len(hist) : hist[i].writer = w})

OkAmong(results, n) == Cardinality({i \in 1..n : results[i].status = "ok"})

\* The loop of a metalad legacy extraction stands where no result is half
\* done: before a result is taken, at the yield, or after it.
BetweenResults(w) == pc[w] \in {"legacy_next", "legacy_yield", "suspended", "idle"}

\* C37: in a metalad legacy extraction the results yielded are the results
\* produced so far, in their order and whatever their status; the writes
\* that ran to their end are one per result with status "ok" up to the
\* current one, that of the current result included when it stands at its
\* yield, and the lock is free there; the lock is taken only for a result
\* with status "ok"; a generator that ended without being closed has yielded
\* every result.  An extractor class of neither legacy family ends with
\* ValueError, no write, no result and no lock taken.
C37_LegacyExtraction ==
    /\ [](\A w \in Writers : mem[w].legacy.family = "metalad" =>
            LET l == mem[w].legacy
            IN  /\ l.emitted = SubSeq(l.results, 1, Len(l.emitted))
                /\ BetweenResults(w) =>
                        /\ Len(l.emitted) = IF pc[w] = "legacy_yield" THEN l.pos - 1 ELSE l.pos
                        /\ LegacyWritten(w) = OkAmong(l.results, l.pos)
                        /\ lock # w
                /\ InPipeline(w) =>
                        /\ l.results[l.pos].status = "ok"
                        /\ Len(l.emitted) = l.pos - 1
                        /\ LegacyWritten(w) = OkAmong(l.results, l.pos) - 1
                /\ (pc[w] = "idle" /\ ~l.closed) =>
                        /\ l.emitted = l.results
                        /\ LegacyWritten(w) = OkAmong(l.results, Len(l.results)))
    /\ [][\A w \in Writers : (mem[w].legacy.family = "metalad" /\ lock # w /\ lock' = w) =>
            pc[w] = "lock" /\ mem[w].legacy.results[mem[w].legacy.pos].status = "ok"]_vars
    /\ [](\A w \in Writers : mem[w].legacy.family \notin {"", "metalad", "datalad"} =>
            /\ pc[w] = "failed" /\ mem[w].error = "ValueError"
            /\ LegacyWritten(w) = 0 /\ mem[w].legacy.emitted = <<>> /\ lock # w
            /\ mem[w].time_stamp = 0)

\* C37 witness: a metalad legacy extraction has ended by itself after its
\* extractor produced a result with status "error" and then one with status
\* "ok": both were yielded and one write was made.
C37_Witness ==
    \E w \in Writers :
        /\ mem[w].legacy.family = "metalad" /\ pc[w] = "idle" /\ ~mem[w].legacy.closed
        /\ Len(mem[w].legacy.results) = 2
        /\ mem[w].legacy.results[1].status = "error" /\ mem[w].legacy.results[2].status = "ok"
        /\ Len(mem[w].legacy.emitted) = 2 /\ LegacyWritten(w) = 1

\* A body line i of a block that stands between the markers of the run
\* record, and the raw diff lines of a block.
InRunRecord(body, i) ==
    \E o \in 1..(i - 1) : body[o] = <<OpenText>> /\ \A c \in (o + 1)..(i - 1) : body[c] # <<CloseText>>

IsMarkerLine(line) == line \in {<<OpenText>>, <<CloseText>>}

IsRawLine(line) == line[1] = ":"

\* The record is the record of the block: its header fields, the lines of
\* its message outside the run record, the run record written between its
\* markers, and one diff entry for each raw diff line, in their order.
AttributedTo(rec, b) ==
    /\ <<rec.gitshasum, rec.author_name, rec.author_email, rec.commit_date>> = b.header
    /\ \A i \in 1..Len(b.body) :
            (~IsMarkerLine(b.body[i]) /\ ~InRunRecord(b.body, i) /\ b.body[i] # <<"">>) =>
                \E m \in 1..Len(rec.message) : rec.message[m] \in {b.body[i][1], StripText(b.body[i][1])}
    /\ \A m \in 1..Len(rec.message) :
            \E i \in 1..Len(b.body) :
                /\ ~IsMarkerLine(b.body[i]) /\ ~InRunRecord(b.body, i)
                /\ rec.message[m] \in {b.body[i][1], StripText(b.body[i][1])}
    /\ rec.run_record.cmd = "ls" <=>
            \E i \in 1..Len(b.body) : InRunRecord(b.body, i) /\ b.body[i][1] \in {DictText, DictTail}
    /\ LET raw == SelectSeq(b.diff, IsRawLine)
       IN  /\ Len(rec.diff) = Len(raw)
           /\ \A i \in 1..Len(raw) : rec.diff[i].path = raw[i][7] /\ rec.diff[i].gitshasum = raw[i][5]
                                      /\ rec.diff[i].mode = raw[i][3]

\* The records yielded so far are those of the first blocks of the log, one
\* for each and in the order of the log.
YieldedInLogOrder ==
    /\ Len(runprov.log.yielded) <= Len(runprov.log.blocks)
    /\ \A j \in 1..Len(runprov.log.yielded) : AttributedTo(runprov.log.yielded[j], runprov.log.blocks[j])

\* C38 (as claimed): when yield_run_records has ended on a log of k blocks
\* it has yielded k records, the j-th being the record of the j-th block:
\* its header, its message and run record from the body lines of that
\* block, its diff entries from the raw diff lines of that block, other
\* lines after the diff marker left out.
C38_YieldsEveryBlock ==
    /\ YieldedInLogOrder
    /\ runprov.log.pc \in {"done", "failed"} => Len(runprov.log.yielded) = Len(runprov.log.blocks)

\* What holds instead: the records yielded are attributed as claimed, a
\* generator that returned has yielded one record for each block, and one
\* that ended with an exception stopped at the first block whose run record
\* does not load, the blocks after it unread.
C38_YieldsEveryBlockUnlessError ==
    /\ YieldedInLogOrder
    /\ runprov.log.pc = "done" => Len(runprov.log.yielded) = Len(runprov.log.blocks)
    /\ runprov.log.pc = "failed" =>
            /\ Len(runprov.log.yielded) < Len(runprov.log.blocks)
            /\ LET b == runprov.log.blocks[Len(runprov.log.yielded) + 1]
               IN  \/ <<OpenText>> \notin Range(b.body)
                   \/ <<NameText>> \in Range(b.body) /\ "r1" \notin runprov.log.runinfo

\* A log of two blocks with different messages and diffs was read to its
\* end and both records were yielded.
C38_BothYielded ==
    /\ runprov.log.pc = "done" /\ Len(runprov.log.yielded) = 2
    /\ runprov.log.blocks[1].body # runprov.log.blocks[2].body
    /\ Len(runprov.log.yielded[1].diff) = 2 /\ Len(runprov.log.yielded[2].diff) = 1

====
